---- MODULE Spec2Model ----
(***************************************************************************)
(* Evolution Sandbox: the simulation kernel (seeded PRNG, entity store,    *)
(* vegetation grid, spatial index, decision rule, two-phase tick executor, *)
(* simulation facade, configuration validation).                           *)
(*                                                                         *)
(* Numbers.  The source computes in IEEE doubles; the model computes in    *)
(* fixed point:                                                            *)
(*   positions, distances, speed, alertRange,                              *)
(*   the five base attributes                      : tenths of a unit      *)
(*   hunger, foodValue, attackPower, defense, decay : hundredths           *)
(*   probabilities and rates of the configuration   : hundredths           *)
(*   a PRNG draw u in [0,1)                         : its top 16 bits,     *)
(*                                                    u16 / 65536          *)
(* Every product is divided back with integer division (truncation).       *)
(***************************************************************************)
EXTENDS Integers, Naturals, Sequences, FiniteSets, TLC

VARIABLES
    config,      \* the SimulationConfig the simulation was created with
    actualSeed,  \* createSimulation: const actualSeed
    world,       \* createSimulation: let world (a World record)
    isPaused,    \* createSimulation: let isPaused
    speed,       \* createSimulation: let speed (hundredths)
    pre,         \* history: the world as it was before the last call
    result,      \* history: the TickResult of the last tick (or NoResult)
    raw,         \* validation harness: the configuration handed to validateConfig
    validated,   \* validation harness: the ValidationResult (or NoValidation)
    spawned,     \* validation harness: animals created from the clamped config
    original,    \* clone harness: the generator clone() is called on, and its last draw
    cloned,      \* clone harness: the generator clone() returned (or None), and its last draw
    fresh,       \* reset harness: the world of a simulation newly created beside (or None)
    trail        \* call harness: the last calls, each with the state it was made in

vars == <<config, actualSeed, world, isPaused, speed, pre, result,
          raw, validated, spawned, original, cloned, fresh, trail>>

(***************************************************************************)
(* Arithmetic helpers                                                      *)
(***************************************************************************)
Min(a, b) == IF a <= b THEN a ELSE b
Max(a, b) == IF a >= b THEN a ELSE b

\* utils/math.ts clamp
clamp(value, lo, hi) == Max(lo, Min(hi, value))

\* const v = value; ...: the value is computed once and named in what follows
With(value, Rest(_)) == Rest(value)

\* the elements of a sequence
Range(seq) == {seq[i] : i \in 1..Len(seq)}

\* Truncation toward zero of a quotient (the fixed-point product of signed values)
TruncDiv(a, b) == IF a >= 0 THEN a \div b ELSE -((-a) \div b)

RECURSIVE SqrtIter(_, _, _)
SqrtIter(n, lo, hi) ==
    IF lo >= hi THEN lo
    ELSE LET mid == (lo + hi + 1) \div 2
         IN  IF mid * mid <= n THEN SqrtIter(n, mid, hi) ELSE SqrtIter(n, lo, mid - 1)

\* Math.sqrt, truncated to an integer
ISqrt(n) == SqrtIter(n, 0, Min(n, 46340))

(***************************************************************************)
(* core/SeededRandom.ts: Mulberry32 on 32-bit words.  A word is a pair     *)
(* <<hi, lo>> of 16-bit halves, so that no intermediate exceeds 2^31.      *)
(***************************************************************************)
W16 == 65536

RECURSIVE Xor16(_, _, _)
Xor16(a, b, n) ==
    IF n = 0 THEN 0
    ELSE ((a + b) % 2) + 2 * Xor16(a \div 2, b \div 2, n - 1)

RECURSIVE Or16(_, _, _)
Or16(a, b, n) ==
    IF n = 0 THEN 0
    ELSE (IF (a % 2) + (b % 2) > 0 THEN 1 ELSE 0) + 2 * Or16(a \div 2, b \div 2, n - 1)

Word(n) == <<(n \div W16) % W16, n % W16>>

Xor32(a, b) == <<Xor16(a[1], b[1], 16), Xor16(a[2], b[2], 16)>>

\* a | c for a constant c < 2^16
OrLow(a, c) == <<a[1], Or16(a[2], c, 16)>>

\* the word of a sum given by its halves, the low half carrying into the high
Carry(hi, lo) == <<(hi + (lo \div W16)) % W16, lo % W16>>

Add32(a, b) == Carry(a[1] + b[1], a[2] + b[2])

Pow2(k) == IF k = 7 THEN 128 ELSE IF k = 14 THEN 16384 ELSE 32768

\* a >>> k for 0 < k < 16
Shr32(a, k) ==
    <<a[1] \div Pow2(k), (a[2] \div Pow2(k)) + (a[1] % Pow2(k)) * (W16 \div Pow2(k))>>

\* (x * y) mod 2^16 for 16-bit x, y
MulLow16(x, y) == (x * (y % 256) + ((x * (y \div 256)) % 256) * 256) % W16

\* Math.imul: the low 32 bits of the product
Imul(a, b) ==
    With(a[2] * (b[2] \div 256), LAMBDA p2 :
        Carry((p2 \div 256) + MulLow16(a[1], b[2]) + MulLow16(a[2], b[1]),
              a[2] * (b[2] % 256) + (p2 % 256) * 256))

\* Mulberry32.next: the new state
MulberryState(s) == Add32(s, <<27947, 31221>>)      \* + 0x6d2b79f5

\* Mulberry32.next: the output word for the new state s
MulberryOut(s) ==
    With(Imul(Xor32(s, Shr32(s, 15)), OrLow(s, 1)), LAMBDA t1 :
    With(Xor32(Add32(t1, Imul(Xor32(t1, Shr32(t1, 7)), OrLow(t1, 61))), t1), LAMBDA t2 :
        Xor32(t2, Shr32(t2, 14))))

\* createSeededRandom(seed): the generator, with its Box-Muller spare
createSeededRandom(seed) == [state |-> Word(seed), spare |-> <<>>, seed |-> seed]

\* RandomGenerator.next: <<generator after the draw, the draw's top 16 bits>>
RngAdvance(rng) == [rng EXCEPT !.state = MulberryState(rng.state)]
RngValue(rng) == MulberryOut(MulberryState(rng.state))[1]


\* next() < p, for a probability p in hundredths
Below(u16, pct) == u16 * 100 < pct * W16

\* Math.floor(next() * n) for a whole number n
Scale(u16, n) == (u16 * n) \div W16

(***************************************************************************)
(* config/defaults.ts and the configurations the simulation is run with    *)
(***************************************************************************)
\* getDefaultConfig (the ui category is left out: the kernel never reads it)
getDefaultConfig ==
    [ WORLD_WIDTH |-> 1000, WORLD_HEIGHT |-> 800, VEGETATION_TILE_SIZE |-> 5,
      TICK_RATE |-> 10, INITIAL_DEER_COUNT |-> 20, INITIAL_WOLF_COUNT |-> 5,
      INITIAL_SPAWN_MIN_DISTANCE |-> 50,
      INITIAL_VEGETATION_DENSITY |-> 40,      \* hundredths
      VEGETATION_SPREAD_RATE |-> 5,           \* hundredths
      VEGETATION_FOOD_VALUE |-> 20,
      MAX_HUNGER |-> 100, INITIAL_HUNGER_SPAWN |-> 80, INITIAL_HUNGER_OFFSPRING |-> 70,
      SPEED_MULTIPLIER |-> 20,                \* tenths
      PERCEPTION_MULTIPLIER |-> 50,           \* tenths
      BASE_DECAY |-> 50,                      \* hundredths
      MOVE_COST |-> 5, FLEE_COST_BONUS |-> 3, \* hundredths
      REPRODUCTION_COST |-> 15,               \* hundredths
      REPRODUCTION_SAFETY_BUFFER |-> 20,      \* hundredths
      REPRODUCTION_COOLDOWN |-> 100,
      OFFSPRING_SPAWN_OFFSET_MAX |-> 20,      \* tenths
      BASE_MUTATION_RATE |-> 5, BEHAVIORAL_MUTATION_RATE |-> 10,
      LIFECYCLE_MUTATION_RATE |-> 5,          \* hundredths
      CORPSE_DECAY_TICKS |-> 100, CORPSE_FOOD_MULTIPLIER |-> 50,
      MAX_ENTITIES |-> 2000, ENTITY_WARNING_THRESHOLD |-> 1000,
      SPATIAL_INDEX_BUCKET_SIZE |-> 100 ]

\* hunger units of the configuration, in hundredths
H(x) == x * 100
\* world units of the configuration, in tenths
D(x) == x * 10

(***************************************************************************)
(* utils/id.ts                                                             *)
(***************************************************************************)
\* createIdGenerator(prefix): the closure's counter
createIdGenerator == 0

\* one call of the generator: the id it returns (the counter becomes counter + 1)
NextId(prefix, counter) == <<prefix, counter + 1>>

(***************************************************************************)
(* species/deer.ts, species/wolf.ts, genetics/derived.ts, entities/Animal.ts *)
(***************************************************************************)
DEER_DIET == [canEatVegetation |-> TRUE, canEatAnimals |-> FALSE, canEatCorpses |-> FALSE]
WOLF_DIET == [canEatVegetation |-> FALSE, canEatAnimals |-> TRUE, canEatCorpses |-> TRUE]

DEER_BASE_ATTRIBUTES ==
    [strength |-> 50, agility |-> 120, endurance |-> 100, perception |-> 140, size |-> 10]
WOLF_BASE_ATTRIBUTES ==
    [strength |-> 120, agility |-> 100, endurance |-> 80, perception |-> 100, size |-> 12]

DEER_BEHAVIORAL_ATTRIBUTES ==
    [aggression |-> 0, flightInstinct |-> 80, foodPriorityThreshold |-> 40,
     reproductiveUrge |-> 50, carrionPreference |-> 0]
WOLF_BEHAVIORAL_ATTRIBUTES ==
    [aggression |-> 60, flightInstinct |-> 10, foodPriorityThreshold |-> 50,
     reproductiveUrge |-> 40, carrionPreference |-> 30]

DEER_LIFECYCLE_ATTRIBUTES == [maxAge |-> 800, maturityAge |-> 50, litterSize |-> 1]
WOLF_LIFECYCLE_ATTRIBUTES == [maxAge |-> 1000, maturityAge |-> 80, litterSize |-> 2]

getSpeciesDefaults(species) ==
    IF species = "deer"
    THEN [baseAttributes |-> DEER_BASE_ATTRIBUTES,
          behavioralAttributes |-> DEER_BEHAVIORAL_ATTRIBUTES,
          lifecycleAttributes |-> DEER_LIFECYCLE_ATTRIBUTES, diet |-> DEER_DIET]
    ELSE [baseAttributes |-> WOLF_BASE_ATTRIBUTES,
          behavioralAttributes |-> WOLF_BEHAVIORAL_ATTRIBUTES,
          lifecycleAttributes |-> WOLF_LIFECYCLE_ATTRIBUTES, diet |-> WOLF_DIET]

\* agility * (1 / sqrt(size)) * multiplier, in tenths
calculateSpeed(agility, size, multiplier) ==
    ISqrt(((agility * multiplier) * (agility * multiplier)) \div (10 * size))

\* perception * multiplier, in tenths
calculateAlertRange(perception, multiplier) == (perception * multiplier) \div 10

\* strength * sqrt(size), in hundredths
calculateAttackPower(strength, size) == ISqrt(strength * strength * size * 10)

\* size * (1 + agility * 0.3), in hundredths
calculateDefense(size, agility) == (size * (100 + 3 * agility)) \div 10

\* baseDecay * (size + speed * 0.3) / endurance, in hundredths
calculateHungerDecayRate(size, spd, endurance, baseDecay) ==
    (baseDecay * (size * 10 + 3 * spd)) \div (10 * endurance)

calculateAllDerivedStats(b, cfg) ==
    With(calculateSpeed(b.agility, b.size, cfg.SPEED_MULTIPLIER), LAMBDA spd :
        [speed |-> spd,
         alertRange |-> calculateAlertRange(b.perception, cfg.PERCEPTION_MULTIPLIER),
         attackPower |-> calculateAttackPower(b.strength, b.size),
         defense |-> calculateDefense(b.size, b.agility),
         hungerDecayRate |->
             calculateHungerDecayRate(b.size, spd, b.endurance, cfg.BASE_DECAY)])

\* an optional value (undefined / null, or present) is a sequence of length 0 or 1
None == <<>>
Some(v) == <<v>>

\* createAnimal(options, config, idGenerator): id is what idGenerator() returned.
\* options: species, position, optional baseAttributes / behavioralAttributes /
\* lifecycleAttributes, parentIds, generation, optional initialHunger (hundredths)
createAnimal(options, cfg, id) ==
    With(getSpeciesDefaults(options.species), LAMBDA defaults :
    With(IF options.baseAttributes = None
         THEN defaults.baseAttributes ELSE options.baseAttributes[1], LAMBDA base :
        [id |-> id,
         species |-> options.species,
         diet |-> defaults.diet,
         baseAttributes |-> base,
         behavioralAttributes |->
             IF options.behavioralAttributes = None
             THEN defaults.behavioralAttributes ELSE options.behavioralAttributes[1],
         lifecycleAttributes |->
             IF options.lifecycleAttributes = None
             THEN defaults.lifecycleAttributes ELSE options.lifecycleAttributes[1],
         derivedStats |-> calculateAllDerivedStats(base, cfg),
         state |-> [position |-> options.position,
                    hunger |-> IF options.initialHunger = None
                               THEN H(cfg.INITIAL_HUNGER_SPAWN) ELSE options.initialHunger[1],
                    age |-> 0,
                    ticksSinceLastReproduction |-> cfg.REPRODUCTION_COOLDOWN,
                    isDead |-> FALSE],
         parentIds |-> options.parentIds,
         generation |-> options.generation]))

\* the options initializePopulation passes
SpawnOptions(species, position) ==
    [species |-> species, position |-> position, baseAttributes |-> None,
     behavioralAttributes |-> None, lifecycleAttributes |-> None,
     parentIds |-> <<None, None>>, generation |-> 0, initialHunger |-> None]

isMature(animal) == animal.state.age >= animal.lifecycleAttributes.maturityAge

\* (REPRODUCTION_COST * litterSize + REPRODUCTION_SAFETY_BUFFER) * MAX_HUNGER, hundredths
requiredHunger(animal, cfg) ==
    (cfg.REPRODUCTION_COST * animal.lifecycleAttributes.litterSize
       + cfg.REPRODUCTION_SAFETY_BUFFER) * cfg.MAX_HUNGER

isReproductionReady(animal, cfg) ==
    /\ isMature(animal)
    /\ ~(animal.state.ticksSinceLastReproduction < cfg.REPRODUCTION_COOLDOWN)
    /\ ~(animal.state.hunger < requiredHunger(animal, cfg))

applyHungerDecay(animal) ==
    [animal EXCEPT !.state.hunger = Max(0, @ - animal.derivedStats.hungerDecayRate)]

\* distance in tenths, costs in hundredths per unit
applyMovementCost(animal, dist, isFleeing, cfg) ==
    [animal EXCEPT !.state.hunger =
        Max(0, @ - ((cfg.MOVE_COST + (IF isFleeing THEN cfg.FLEE_COST_BONUS ELSE 0)) * dist)
                     \div 10)]

(***************************************************************************)
(* utils/vector.ts                                                         *)
(***************************************************************************)
distanceSquared(a, b) == (a.x - b.x) * (a.x - b.x) + (a.y - b.y) * (a.y - b.y)
magnitude(v) == ISqrt(v.x * v.x + v.y * v.y)
distance(a, b) == ISqrt(distanceSquared(a, b))


(***************************************************************************)
(* A JavaScript Map (or Set) is a sequence of entries in insertion order:  *)
(* iteration order is observable (nearest-food ties, the stable sort).     *)
(***************************************************************************)
\* Map.has(id)
MapHas(m, id) == \E i \in 1..Len(m) : m[i].id = id

\* Map.get(id), for an id the map has
MapGet(m, id) == m[CHOOSE i \in 1..Len(m) : m[i].id = id]

\* Map.set(e.id, e): an existing key keeps its place
MapSet(m, e) ==
    IF MapHas(m, e.id)
    THEN [i \in 1..Len(m) |-> IF m[i].id = e.id THEN e ELSE m[i]]
    ELSE Append(m, e)

\* Map.delete(id)
MapDelete(m, id) == SelectSeq(m, LAMBDA e : e.id # id)

(***************************************************************************)
(* entities/EntityManager.ts                                               *)
(***************************************************************************)
createEntityManager == [animals |-> <<>>, corpses |-> <<>>]

\* addAnimal as a push onto a list: an animal whose id the store already holds is
\* added beside the one held
addAnimalPush(em, animal) == [em EXCEPT !.animals = Append(@, animal)]

addAnimal(em, animal) == [em EXCEPT !.animals = MapSet(@, animal)]

addCorpse(em, corpse) == [em EXCEPT !.corpses = MapSet(@, corpse)]

removeCorpse(em, id) == [em EXCEPT !.corpses = MapDelete(@, id)]

\* updateAnimal(id, updates) with a whole Animal as the updates
updateAnimal(em, id, updates) ==
    IF MapHas(em.animals, id)
    THEN [em EXCEPT !.animals = [i \in 1..Len(@) |-> IF @[i].id = id THEN updates ELSE @[i]]]
    ELSE em

getLivingAnimals(em) == SelectSeq(em.animals, LAMBDA a : ~a.state.isDead)

(***************************************************************************)
(* spatial/VegetationGrid.ts: grid coordinates are whole numbers           *)
(***************************************************************************)
createVegetationGrid(worldWidth, worldHeight, tileSize) ==
    [cols |-> worldWidth \div tileSize, rows |-> worldHeight \div tileSize,
     tileSize |-> tileSize, vegetation |-> <<>>]

isValidGridPosition(grid, gridX, gridY) ==
    gridX >= 0 /\ gridX < grid.cols /\ gridY >= 0 /\ gridY < grid.rows

VegHas(grid, gridX, gridY) ==
    /\ isValidGridPosition(grid, gridX, gridY)
    /\ \E i \in 1..Len(grid.vegetation) : grid.vegetation[i] = [x |-> gridX, y |-> gridY]

\* set(gridX, gridY, true)
VegSet(grid, gridX, gridY) ==
    IF ~isValidGridPosition(grid, gridX, gridY) \/ VegHas(grid, gridX, gridY) THEN grid
    ELSE [grid EXCEPT !.vegetation = Append(@, [x |-> gridX, y |-> gridY])]

VegRemove(grid, gridX, gridY) ==
    IF ~isValidGridPosition(grid, gridX, gridY) THEN grid
    ELSE [grid EXCEPT !.vegetation =
              SelectSeq(@, LAMBDA p : p # [x |-> gridX, y |-> gridY])]

\* positions are in tenths, tileSize in whole units; positions are never negative
worldToGrid(grid, worldX, worldY) ==
    [x |-> worldX \div D(grid.tileSize), y |-> worldY \div D(grid.tileSize)]

\* the centre of the tile, in tenths
gridToWorld(grid, gridX, gridY) ==
    [x |-> D(gridX * grid.tileSize) + 5 * grid.tileSize,
     y |-> D(gridY * grid.tileSize) + 5 * grid.tileSize]

getNeighbors(grid, gridX, gridY) ==
    SelectSeq(<<[x |-> gridX - 1, y |-> gridY], [x |-> gridX + 1, y |-> gridY],
                [x |-> gridX, y |-> gridY - 1], [x |-> gridX, y |-> gridY + 1]>>,
              LAMBDA n : isValidGridPosition(grid, n.x, n.y))

\* initializeVegetation: cell k = y * cols + x, row by row; st = [grid, rng]
RECURSIVE InitVegLoop(_, _, _)
InitVegLoop(st, k, density) ==
    IF k >= st.grid.cols * st.grid.rows THEN st
    ELSE InitVegLoop([grid |-> IF Below(RngValue(st.rng), density)
                               THEN VegSet(st.grid, k % st.grid.cols, k \div st.grid.cols)
                               ELSE st.grid,
                      rng |-> RngAdvance(st.rng)],
                     k + 1, density)

initializeVegetation(grid, density, rng) ==
    InitVegLoop([grid |-> grid, rng |-> rng], 0, density)

\* spread: the inner loop over the neighbours of one tile
RECURSIVE SpreadNeighbors(_, _, _)
SpreadNeighbors(st, neighbors, spreadRate) ==
    IF neighbors = <<>> THEN st
    ELSE LET n == Head(neighbors)
         IN  IF VegHas(st.grid, n.x, n.y)
             THEN SpreadNeighbors(st, Tail(neighbors), spreadRate)
             ELSE SpreadNeighbors(
                      [grid |-> IF Below(RngValue(st.rng), spreadRate)
                                THEN VegSet(st.grid, n.x, n.y) ELSE st.grid,
                       rng |-> RngAdvance(st.rng)],
                      Tail(neighbors), spreadRate)

\* spread: the outer loop over the positions copied before the loop
RECURSIVE SpreadLoop(_, _, _)
SpreadLoop(st, currentPositions, spreadRate) ==
    IF currentPositions = <<>> THEN st
    ELSE SpreadLoop(
             SpreadNeighbors(st, getNeighbors(st.grid, Head(currentPositions).x,
                                              Head(currentPositions).y), spreadRate),
             Tail(currentPositions), spreadRate)

\* spread in which the tiles that the pass occupied spread in the same pass
spreadFromTheNewToo(grid, rng, spreadRate) ==
    IF spreadRate = 0 THEN [grid |-> grid, rng |-> rng]
    ELSE With(SpreadLoop([grid |-> grid, rng |-> rng], grid.vegetation, spreadRate),
              LAMBDA st :
             SpreadLoop(st, SubSeq(st.grid.vegetation, Len(grid.vegetation) + 1,
                                   Len(st.grid.vegetation)), spreadRate))

spread(grid, rng, spreadRate) ==
    IF spreadRate = 0 THEN [grid |-> grid, rng |-> rng]
    ELSE SpreadLoop([grid |-> grid, rng |-> rng], grid.vegetation, spreadRate)

(***************************************************************************)
(* spatial/SpatialIndex.ts                                                 *)
(***************************************************************************)
CeilDiv(a, b) == (a + b - 1) \div b

\* buckets: the entries of all bucket maps, each tagged with its bucket
createSpatialIndex(bucketSize, worldWidth, worldHeight) ==
    [bucketSize |-> bucketSize,
     cols |-> CeilDiv(worldWidth, bucketSize), rows |-> CeilDiv(worldHeight, bucketSize),
     buckets |-> <<>>, entityBuckets |-> <<>>, allEntities |-> <<>>]

getBucketCoords(idx, position) ==
    [x |-> Max(0, Min(idx.cols - 1, position.x \div D(idx.bucketSize))),
     y |-> Max(0, Min(idx.rows - 1, position.y \div D(idx.bucketSize)))]

animalToSpatialEntity(animal) ==
    [id |-> animal.id, position |-> animal.state.position, size |-> animal.baseAttributes.size]

SpatialInsert(idx, entity) ==
    With(getBucketCoords(idx, entity.position), LAMBDA c :
    With([id |-> entity.id, bucket |-> c, entity |-> entity], LAMBDA tagged :
        [idx EXCEPT
           !.buckets = IF \E i \in 1..Len(@) : @[i].id = entity.id /\ @[i].bucket = c
                       THEN [i \in 1..Len(@) |->
                               IF @[i].id = entity.id /\ @[i].bucket = c THEN tagged ELSE @[i]]
                       ELSE Append(@, tagged),
           !.entityBuckets = MapSet(@, [id |-> entity.id, coords |-> c]),
           !.allEntities = MapSet(@, entity)]))

SpatialRemove(idx, id) ==
    IF MapHas(idx.entityBuckets, id)
    THEN With(MapGet(idx.entityBuckets, id).coords, LAMBDA c :
             [idx EXCEPT
                !.buckets = SelectSeq(@, LAMBDA e : ~(e.id = id /\ e.bucket = c)),
                !.entityBuckets = MapDelete(@, id),
                !.allEntities = MapDelete(@, id)])
    ELSE idx

SpatialUpdate(idx, entity) == SpatialInsert(SpatialRemove(idx, entity.id), entity)

\* queryRadius: the loops over the buckets from (minBucketX, minBucketY) to
\* (maxBucketX, maxBucketY), by rows; box holds the four bounds.  The test
\* "distance(center, entity.position) - entity.size <= radius" is made on the
\* squares (no radius and no size is negative)
RECURSIVE ScanBuckets(_, _, _, _, _, _)
ScanBuckets(idx, center, radius, box, by, bx) ==
    IF by > box.maxBucketY THEN <<>>
    ELSE IF bx > box.maxBucketX
    THEN ScanBuckets(idx, center, radius, box, by + 1, box.minBucketX)
    ELSE With(SelectSeq(idx.buckets, LAMBDA e :
                  /\ e.bucket = [x |-> bx, y |-> by]
                  /\ distanceSquared(center, e.entity.position)
                       <= (radius + e.entity.size) * (radius + e.entity.size)),
              LAMBDA found :
             [i \in 1..Len(found) |-> found[i].entity]
                 \o ScanBuckets(idx, center, radius, box, by, bx + 1))

\* queryRadius(center, radius): "Determine which buckets to check", then the loops
queryRadius(idx, center, radius) ==
    With([minBucketX |-> Max(0, (center.x - radius) \div D(idx.bucketSize)),
          maxBucketX |-> Min(idx.cols - 1, (center.x + radius) \div D(idx.bucketSize)),
          minBucketY |-> Max(0, (center.y - radius) \div D(idx.bucketSize)),
          maxBucketY |-> Min(idx.rows - 1, (center.y + radius) \div D(idx.bucketSize))],
         LAMBDA box :
        ScanBuckets(idx, center, radius, box, box.minBucketY, box.minBucketX))


(***************************************************************************)
(* core/World.ts                                                           *)
(***************************************************************************)
createWorld(cfg, seed) ==
    [entityManager |-> createEntityManager,
     vegetationGrid |-> createVegetationGrid(cfg.WORLD_WIDTH, cfg.WORLD_HEIGHT,
                                             cfg.VEGETATION_TILE_SIZE),
     animalSpatialIndex |-> createSpatialIndex(cfg.SPATIAL_INDEX_BUCKET_SIZE,
                                               cfg.WORLD_WIDTH, cfg.WORLD_HEIGHT),
     rng |-> createSeededRandom(seed),
     currentTick |-> 0,
     deerIdGen |-> createIdGenerator,
     wolfIdGen |-> createIdGenerator,
     corpseIdGen |-> createIdGenerator]

maxAttempts == 100

\* a position drawn with two draws: rng.next() * WORLD_WIDTH, rng.next() * WORLD_HEIGHT
DrawPosition(cfg, rng) ==
    [x |-> Scale(RngValue(rng), D(cfg.WORLD_WIDTH)),
     y |-> Scale(RngValue(RngAdvance(rng)), D(cfg.WORLD_HEIGHT))]

\* getRandomPosition: [position, rng] after at most maxAttempts rejected draws
RECURSIVE getRandomPosition(_, _, _, _, _)
getRandomPosition(cfg, rng, existingAnimals, minDistance, attempt) ==
    With(DrawPosition(cfg, rng), LAMBDA pos :
        IF \/ attempt >= maxAttempts
           \/ ~\E i \in 1..Len(existingAnimals) :
                  distanceSquared(pos, existingAnimals[i].state.position)
                      < D(minDistance) * D(minDistance)
        THEN [position |-> pos, rng |-> RngAdvance(RngAdvance(rng))]
        ELSE getRandomPosition(cfg, RngAdvance(RngAdvance(rng)), existingAnimals,
                               minDistance, attempt + 1))

\* initializePopulation: one iteration of either loop; w is the World
SpawnOne(w, cfg, species) ==
    With(getRandomPosition(cfg, w.rng, w.entityManager.animals,
                           cfg.INITIAL_SPAWN_MIN_DISTANCE, 0), LAMBDA r :
    With(createAnimal(SpawnOptions(species, r.position), cfg,
                      NextId(species, IF species = "deer" THEN w.deerIdGen ELSE w.wolfIdGen)),
         LAMBDA animal :
        [w EXCEPT !.rng = r.rng,
                  !.deerIdGen = IF species = "deer" THEN @ + 1 ELSE @,
                  !.wolfIdGen = IF species = "wolf" THEN @ + 1 ELSE @,
                  !.entityManager = addAnimal(@, animal),
                  !.animalSpatialIndex = SpatialInsert(@, animalToSpatialEntity(animal))]))

RECURSIVE SpawnLoop(_, _, _, _)
SpawnLoop(w, cfg, species, n) ==
    IF n = 0 THEN w ELSE SpawnLoop(SpawnOne(w, cfg, species), cfg, species, n - 1)

initializePopulation(w, cfg) ==
    With(initializeVegetation(w.vegetationGrid, cfg.INITIAL_VEGETATION_DENSITY, w.rng),
         LAMBDA v :
        SpawnLoop(SpawnLoop([w EXCEPT !.vegetationGrid = v.grid, !.rng = v.rng],
                            cfg, "deer", cfg.INITIAL_DEER_COUNT),
                  cfg, "wolf", cfg.INITIAL_WOLF_COUNT))

(***************************************************************************)
(* entities/Corpse.ts                                                      *)
(***************************************************************************)
\* foodValue = size * (hunger / MAX_HUNGER) * CORPSE_FOOD_MULTIPLIER, in hundredths
createCorpseFromAnimal(animal, cfg, id) ==
    [id |-> id,
     sourceSpecies |-> animal.species,
     sourceId |-> animal.id,
     position |-> animal.state.position,
     gridPosition |-> [x |-> animal.state.position.x \div D(cfg.VEGETATION_TILE_SIZE),
                       y |-> animal.state.position.y \div D(cfg.VEGETATION_TILE_SIZE)],
     foodValue |-> (animal.baseAttributes.size * animal.state.hunger
                      * cfg.CORPSE_FOOD_MULTIPLIER) \div (10 * cfg.MAX_HUNGER),
     sourceSize |-> animal.baseAttributes.size,
     decayTimer |-> cfg.CORPSE_DECAY_TICKS]

decayCorpse(corpse) == [corpse EXCEPT !.decayTimer = Max(0, @ - 1)]

\* isCorpseExhausted that looks at the decay timer only
isCorpseExhaustedByTimer(corpse) == corpse.decayTimer <= 0

isCorpseExhausted(corpse) == corpse.foodValue <= 0 \/ corpse.decayTimer <= 0


(***************************************************************************)
(* behavior/ThreatCalculator.ts                                            *)
(***************************************************************************)
\* (attackPower * aggression) / defense > 1 - flightInstinct, cross-multiplied;
\* a zero defense makes the threat infinite
isThreatening(self, other) ==
    IF self.derivedStats.defense = 0 THEN TRUE
    ELSE other.derivedStats.attackPower * other.behavioralAttributes.aggression
           > (100 - self.behavioralAttributes.flightInstinct) * self.derivedStats.defense

\* threats.sort((a, b) => a.distance - b.distance): the sort is stable, so each
\* element goes after the last one that is not farther
RECURSIVE InsertThreat(_, _)
InsertThreat(sorted, e) ==
    IF sorted = <<>> THEN <<e>>
    ELSE IF e.d2 < Head(sorted).d2 THEN <<e>> \o sorted
    ELSE <<Head(sorted)>> \o InsertThreat(Tail(sorted), e)

RECURSIVE SortThreats(_)
SortThreats(s) ==
    IF s = <<>> THEN <<>>
    ELSE InsertThreat(SortThreats(SubSeq(s, 1, Len(s) - 1)), s[Len(s)])

findThreats(self, nearbyAnimals) ==
    With(SelectSeq(nearbyAnimals, LAMBDA other :
             /\ other.id # self.id
             /\ distanceSquared(self.state.position, other.state.position)
                  <= self.derivedStats.alertRange * self.derivedStats.alertRange
             /\ isThreatening(self, other)), LAMBDA inRange :
        SortThreats([i \in 1..Len(inRange) |->
            [id |-> inRange[i].id,
             distance |-> distance(self.state.position, inRange[i].state.position),
             d2 |-> distanceSquared(self.state.position, inRange[i].state.position)]]))

\* the weighted sum of the directions away from the threats, weight 1 / max(1, distance),
\* in thousandths
RECURSIVE FleeSum(_, _, _)
FleeSum(selfPosition, threats, animals) ==
    IF threats = <<>> THEN [x |-> 0, y |-> 0]
    ELSE IF ~MapHas(animals, Head(threats).id)
    THEN FleeSum(selfPosition, Tail(threats), animals)
    ELSE With(FleeSum(selfPosition, Tail(threats), animals), LAMBDA rest :
         With(MapGet(animals, Head(threats).id).state.position, LAMBDA from :
             [x |-> rest.x + TruncDiv((selfPosition.x - from.x) * 1000,
                                      Max(10, Head(threats).distance)),
              y |-> rest.y + TruncDiv((selfPosition.y - from.y) * 1000,
                                      Max(10, Head(threats).distance))]))

\* calculateFleeVector, not yet normalised: the caller divides by the magnitude
calculateFleeVector(selfPosition, threats, animals) == FleeSum(selfPosition, threats, animals)

\* position + normalize(v) * length
MoveAlong(position, v, length) ==
    With(magnitude(v), LAMBDA mag :
        IF mag = 0 THEN position
        ELSE [x |-> position.x + TruncDiv(v.x * length, mag),
              y |-> position.y + TruncDiv(v.y * length, mag)])

(***************************************************************************)
(* behavior/FoodFinder.ts                                                  *)
(***************************************************************************)
InAlertRange(animal, position) ==
    distanceSquared(animal.state.position, position)
        <= animal.derivedStats.alertRange * animal.derivedStats.alertRange

\* the first candidate at the least distance: a later one replaces only if strictly nearer
RECURSIVE Nearest(_, _, _)
Nearest(animal, candidates, best) ==
    IF candidates = <<>> THEN best
    ELSE Nearest(animal, Tail(candidates),
                 IF /\ InAlertRange(animal, Head(candidates).position)
                    /\ \/ best = None
                       \/ distanceSquared(animal.state.position, Head(candidates).position)
                            < distanceSquared(animal.state.position, best[1].position)
                 THEN Some(Head(candidates)) ELSE best)

findNearestVegetation(animal, grid) ==
    IF ~animal.diet.canEatVegetation THEN None
    ELSE Nearest(animal,
                 [i \in 1..Len(grid.vegetation) |->
                     [type |-> "vegetation",
                      position |-> gridToWorld(grid, grid.vegetation[i].x, grid.vegetation[i].y),
                      targetId |-> None]],
                 None)

findNearestCorpse(animal, corpses) ==
    IF ~animal.diet.canEatCorpses THEN None
    ELSE With(SelectSeq(corpses, LAMBDA c : c.foodValue > 0), LAMBDA withFood :
             Nearest(animal,
                     [i \in 1..Len(withFood) |->
                         [type |-> "corpse", position |-> withFood[i].position,
                          targetId |-> Some(withFood[i].id)]],
                     None))

findNearestPrey(animal, nearbyAnimals) ==
    IF ~animal.diet.canEatAnimals THEN None
    ELSE With(SelectSeq(nearbyAnimals, LAMBDA other :
                  /\ other.species # animal.species
                  /\ ~other.state.isDead
                  /\ ~other.diet.canEatAnimals), LAMBDA huntable :
             Nearest(animal,
                     [i \in 1..Len(huntable) |->
                         [type |-> "prey", position |-> huntable[i].state.position,
                          targetId |-> Some(huntable[i].id)]],
                     None))

\* selectFoodTarget: [target, rng]
selectFoodTarget(animal, grid, corpses, nearbyAnimals, rng) ==
    With(findNearestVegetation(animal, grid), LAMBDA vegetation :
    With(findNearestCorpse(animal, corpses), LAMBDA corpse :
    With(findNearestPrey(animal, nearbyAnimals), LAMBDA prey :
        IF vegetation = None /\ corpse = None /\ prey = None
        THEN [target |-> None, rng |-> rng]
        ELSE IF animal.diet.canEatVegetation /\ ~animal.diet.canEatAnimals
        THEN [target |-> vegetation, rng |-> rng]
        ELSE IF corpse # None /\ prey # None
        THEN [target |-> IF Below(RngValue(rng), animal.behavioralAttributes.carrionPreference)
                         THEN corpse ELSE prey,
              rng |-> RngAdvance(rng)]
        ELSE IF corpse # None THEN [target |-> corpse, rng |-> rng]
        ELSE IF prey # None THEN [target |-> prey, rng |-> rng]
        ELSE [target |-> vegetation, rng |-> rng])))

isAtFoodPosition(animal, target, grid) ==
    IF target.type = "vegetation"
    THEN worldToGrid(grid, animal.state.position.x, animal.state.position.y)
           = worldToGrid(grid, target.position.x, target.position.y)
    ELSE distanceSquared(animal.state.position, target.position)
           <= (animal.baseAttributes.size + 20) * (animal.baseAttributes.size + 20)


(***************************************************************************)
(* behavior/DecisionEngine.ts                                              *)
(***************************************************************************)
Action(type, targetId, targetPosition, details) ==
    [type |-> type, targetId |-> targetId, targetPosition |-> targetPosition,
     details |-> details]

\* shouldDie that lets an animal with no hunger left live: hunger < 0 in place of
\* hunger <= 0
shouldDieBelowZero(animal) ==
    IF animal.state.hunger < 0 THEN "starvation"
    ELSE IF animal.state.age >= animal.lifecycleAttributes.maxAge THEN "old age"
    ELSE ""

\* shouldDie that knows no old age: an animal dies of starvation alone
shouldDieOfHungerAlone(animal) ==
    IF animal.state.hunger <= 0 THEN "starvation" ELSE ""

\* shouldDie: the cause, or "" when the animal lives on
shouldDie(animal) ==
    IF animal.state.hunger <= 0 THEN "starvation"
    ELSE IF animal.state.age >= animal.lifecycleAttributes.maxAge THEN "old age"
    ELSE ""

\* shouldFlee: [should, rng]
shouldFlee(animal, nearbyAnimals, cfg, rng) ==
    IF findThreats(animal, nearbyAnimals) = <<>> THEN [should |-> FALSE, rng |-> rng]
    ELSE IF animal.state.hunger
              > animal.behavioralAttributes.foodPriorityThreshold * cfg.MAX_HUNGER
    THEN [should |-> TRUE, rng |-> rng]
    ELSE \* rng.next() < hungerRatio / foodPriorityThreshold
         [should |-> RngValue(rng) * (animal.behavioralAttributes.foodPriorityThreshold
                                        * cfg.MAX_HUNGER) < animal.state.hunger * W16,
          rng |-> RngAdvance(rng)]

\* shouldAttack: [should, rng]; the chance aggression * (1 - hunger / 100) in 1/10000
shouldAttack(animal, target, rng) ==
    IF animal.behavioralAttributes.aggression = 0 THEN [should |-> FALSE, rng |-> rng]
    ELSE [should |-> RngValue(rng) * 10000
                       < TruncDiv(animal.behavioralAttributes.aggression
                                    * (10000 - animal.state.hunger), 100) * W16,
          rng |-> RngAdvance(rng)]

\* canKill that lets the attacker win a draw: >= in place of >
canKillAtADraw(attacker, defender) ==
    attacker.derivedStats.attackPower >= defender.derivedStats.defense

canKill(attacker, defender) ==
    attacker.derivedStats.attackPower > defender.derivedStats.defense

\* Math.sin and Math.cos of rng.next() * 2 * PI, in thousandths, for the angle
\* u16 / 65536 of a turn taken in 1024ths of a turn (Bhaskara's rational form)
SinTurn(t) ==
    With((t % 512) * (512 - (t % 512)), LAMBDA p :
        IF t % 1024 < 512 THEN (16000 * p) \div (1310720 - 4 * p)
        ELSE -((16000 * p) \div (1310720 - 4 * p)))

CosTurn(t) == SinTurn((t + 256) % 1024)

isHungry(animal, cfg) == animal.state.hunger * 10 < 9 * H(cfg.MAX_HUNGER)

InContact(animal, preyAnimal) ==
    distanceSquared(animal.state.position, preyAnimal.state.position)
      <= (animal.baseAttributes.size + preyAnimal.baseAttributes.size + 20)
           * (animal.baseAttributes.size + preyAnimal.baseAttributes.size + 20)

Decided(action, rng) == [action |-> Some(action), rng |-> rng]
Undecided(rng) == [action |-> None, rng |-> rng]

\* makeDecision, step 2: flee; [action or None, rng]
DecideFlee(ctx, rng) ==
    With(shouldFlee(ctx.animal, ctx.nearbyAnimals, ctx.config, rng), LAMBDA fl :
        IF fl.should
        THEN Decided(Action("FLEE", None,
                 Some(MoveAlong(ctx.animal.state.position,
                                calculateFleeVector(ctx.animal.state.position,
                                    findThreats(ctx.animal, ctx.nearbyAnimals),
                                    ctx.nearbyAnimals),
                                ctx.animal.derivedStats.speed)), ""), fl.rng)
        ELSE Undecided(fl.rng))

\* makeDecision, steps 3 and 4: the prey is in contact, attack if shouldAttack says so
DecideAttack(animal, preyAnimal, rng) ==
    With(shouldAttack(animal, preyAnimal, rng), LAMBDA a :
        IF a.should
        THEN Decided(Action("ATTACK", Some(preyAnimal.id),
                            Some(preyAnimal.state.position), ""), a.rng)
        ELSE Undecided(a.rng))

\* makeDecision, step 3: feeding, for a hungry animal; [action or None, rng]
DecideFood(ctx, rng) ==
    With(selectFoodTarget(ctx.animal, ctx.vegetationGrid, ctx.corpses,
                          ctx.nearbyAnimals, rng), LAMBDA f :
        IF f.target = None THEN Undecided(f.rng)
        ELSE IF f.target[1].type = "prey" /\ f.target[1].targetId # None
        THEN IF InContact(ctx.animal, MapGet(ctx.nearbyAnimals, f.target[1].targetId[1]))
             THEN DecideAttack(ctx.animal,
                               MapGet(ctx.nearbyAnimals, f.target[1].targetId[1]), f.rng)
             ELSE Decided(Action("MOVE_TO_FOOD", f.target[1].targetId,
                                 Some(f.target[1].position), ""), f.rng)
        ELSE IF isAtFoodPosition(ctx.animal, f.target[1], ctx.vegetationGrid)
        THEN Decided(Action("EAT", f.target[1].targetId, Some(f.target[1].position),
                            f.target[1].type), f.rng)
        ELSE Decided(Action("MOVE_TO_FOOD", f.target[1].targetId,
                            Some(f.target[1].position), ""), f.rng))

\* makeDecision, step 4: the attack of opportunity of a predator that is not hungry
DecideOpportunity(ctx, rng) ==
    With(findNearestPrey(ctx.animal, ctx.nearbyAnimals), LAMBDA prey :
        IF prey = None THEN Undecided(rng)
        ELSE IF ~InContact(ctx.animal, MapGet(ctx.nearbyAnimals, prey[1].targetId[1]))
        THEN Undecided(rng)
        ELSE DecideAttack(ctx.animal, MapGet(ctx.nearbyAnimals, prey[1].targetId[1]), rng))

\* makeDecision, steps 3 and 4 together
DecideFeeding(ctx, rng) ==
    IF isHungry(ctx.animal, ctx.config) THEN DecideFood(ctx, rng)
    ELSE IF ctx.animal.diet.canEatAnimals THEN DecideOpportunity(ctx, rng)
    ELSE Undecided(rng)

\* makeDecision, step 6: drift when hungry, else stay
DecideDefault(ctx, rng) ==
    IF isHungry(ctx.animal, ctx.config)
    THEN With(RngValue(rng) \div 64, LAMBDA t :
             [action |-> Action("DRIFT", None,
                  Some([x |-> ctx.animal.state.position.x
                                + TruncDiv(CosTurn(t) * ctx.animal.derivedStats.speed, 2000),
                        y |-> ctx.animal.state.position.y
                                + TruncDiv(SinTurn(t) * ctx.animal.derivedStats.speed, 2000)]),
                  ""),
              rng |-> RngAdvance(rng)])
    ELSE [action |-> Action("STAY", None, None, ""), rng |-> rng]

\* makeDecision, step 5, then step 6
DecideRest(ctx, rng) ==
    IF isReproductionReady(ctx.animal, ctx.config)
    THEN IF Below(RngValue(rng), ctx.animal.behavioralAttributes.reproductiveUrge)
         THEN [action |-> Action("REPRODUCE", None, None, ""), rng |-> RngAdvance(rng)]
         ELSE DecideDefault(ctx, RngAdvance(rng))
    ELSE DecideDefault(ctx, rng)

\* the first stage that decided, else what the next stage says
OrElse(stage, Rest(_)) ==
    IF stage.action # None THEN [action |-> stage.action[1], rng |-> stage.rng]
    ELSE Rest(stage.rng)

\* makeDecision(context): [action, rng]
makeDecision(ctx, rng) ==
    IF shouldDie(ctx.animal) # ""
    THEN [action |-> Action("DIE", None, None, shouldDie(ctx.animal)), rng |-> rng]
    ELSE OrElse(With(DecideFlee(ctx, rng), LAMBDA fl :
                    IF fl.action # None THEN fl ELSE DecideFeeding(ctx, fl.rng)),
                LAMBDA r : DecideRest(ctx, r))


(***************************************************************************)
(* core/SeededRandom.ts nextNormal, genetics/attributes.ts,                *)
(* genetics/mutation.ts, genetics/inheritance.ts                           *)
(***************************************************************************)
RECURSIVE TwoTo(_)
TwoTo(k) == IF k = 0 THEN 1 ELSE 2 * TwoTo(k - 1)

RECURSIVE Log2Floor(_)
Log2Floor(n) == IF n < 2 THEN 0 ELSE 1 + Log2Floor(n \div 2)

\* 2 * atanh(y) in 1/10000 for y in 1/10000: 2 * (y + y^3 / 3 + y^5 / 5)
Atanh2(y) ==
    With((y * y) \div 10000, LAMBDA y2 :
    With((y2 * y) \div 10000, LAMBDA y3 :
        2 * (y + y3 \div 3 + ((y3 * y2) \div 10000) \div 5)))

\* Math.log(n) in thousandths, n >= 1: k * ln 2 plus the logarithm of the mantissa
Ln1000(n) ==
    With(Log2Floor(n), LAMBDA k :
    With(IF k >= 10 THEN n \div TwoTo(k - 10) ELSE n * TwoTo(10 - k), LAMBDA m :
        (k * 6931 + Atanh2((10000 * (m - 1024)) \div (m + 1024))) \div 10))

\* nextNormal's do-while: u = next() * 2 - 1 and v likewise, in 1/16384;
\* s = u * u + v * v in 1/2^28; repeated while s >= 1 or s = 0
RECURSIVE BoxMullerDraw(_)
BoxMullerDraw(rng) ==
    With((RngValue(rng) \div 2) - 16384, LAMBDA u :
    With((RngValue(RngAdvance(rng)) \div 2) - 16384, LAMBDA v :
        IF u * u + v * v >= 268435456 \/ u * u + v * v = 0
        THEN BoxMullerDraw(RngAdvance(RngAdvance(rng)))
        ELSE [u |-> u, v |-> v, sNum |-> u * u + v * v,
              rng |-> RngAdvance(RngAdvance(rng))]))

\* nextNormal(0, stdDev) / stdDev in thousandths: [value, rng].
\* u * sqrt(-2 ln(s) / s) is computed as u / sqrt(sNum) * sqrt(-2 ln s)
nextNormal(rng) ==
    IF rng.spare # None
    THEN [value |-> rng.spare[1], rng |-> [rng EXCEPT !.spare = None]]
    ELSE With(BoxMullerDraw(rng), LAMBDA d :
         With(ISqrt(2000 * (19407 - Ln1000(d.sNum))), LAMBDA root :  \* 19407: 1000 ln 2^28
         With(ISqrt(d.sNum), LAMBDA r :
             [value |-> TruncDiv(d.u * root, r),
              rng |-> [d.rng EXCEPT !.spare = Some(TruncDiv(d.v * root, r))]])))

BASE_ATTRIBUTE_BOUNDS ==
    [strength |-> [min |-> 10, max |-> 200], agility |-> [min |-> 10, max |-> 200],
     endurance |-> [min |-> 10, max |-> 200], perception |-> [min |-> 10, max |-> 200],
     size |-> [min |-> 3, max |-> 30]]

BEHAVIORAL_ATTRIBUTE_BOUNDS ==
    [aggression |-> [min |-> 0, max |-> 100], flightInstinct |-> [min |-> 0, max |-> 100],
     foodPriorityThreshold |-> [min |-> 10, max |-> 90],
     reproductiveUrge |-> [min |-> 10, max |-> 90],
     carrionPreference |-> [min |-> 0, max |-> 100]]

\* in halves, as the lifecycle values are carried between inheritance and Math.round
LIFECYCLE_ATTRIBUTE_BOUNDS ==
    [maxAge |-> [min |-> 100, max |-> 4000], maturityAge |-> [min |-> 20, max |-> 1000],
     litterSize |-> [min |-> 2, max |-> 8]]

\* clampAttribute that holds the value above its minimum only
clampAttributeFromBelow(value, bounds) == Max(bounds.min, value)

clampAttribute(value, bounds) == Max(bounds.min, Min(bounds.max, value))

\* mutateValue: [value, rng]; value * (1 + mutation), mutation = normal * rate
mutateValue(value, mutationRate, bounds, rng) ==
    IF mutationRate = 0 THEN [value |-> value, rng |-> rng]
    ELSE With(nextNormal(rng), LAMBDA n :
             [value |-> clampAttribute(
                            value + TruncDiv(value * ((n.value * mutationRate) \div 10), 10000),
                            bounds),
              rng |-> n.rng])

\* mutate the fields named in keys, in that order: [attributes, rng]
RECURSIVE MutateFields(_, _, _, _, _)
MutateFields(attributes, keys, mutationRate, bounds, rng) ==
    IF keys = <<>> THEN [attributes |-> attributes, rng |-> rng]
    ELSE With(mutateValue(attributes[Head(keys)], mutationRate, bounds[Head(keys)], rng),
              LAMBDA m :
             MutateFields([attributes EXCEPT ![Head(keys)] = m.value], Tail(keys),
                          mutationRate, bounds, m.rng))

mutateBaseAttributes(attributes, mutationRate, rng) ==
    MutateFields(attributes, <<"strength", "agility", "endurance", "perception", "size">>,
                 mutationRate, BASE_ATTRIBUTE_BOUNDS, rng)

mutateBehavioralAttributes(attributes, mutationRate, rng) ==
    MutateFields(attributes, <<"aggression", "flightInstinct", "foodPriorityThreshold",
                               "reproductiveUrge", "carrionPreference">>,
                 mutationRate, BEHAVIORAL_ATTRIBUTE_BOUNDS, rng)

\* Math.round of a value in halves
RoundHalves(v) == (v + 1) \div 2

mutateLifecycleAttributes(attributes, mutationRate, rng) ==
    With(MutateFields(attributes, <<"maxAge", "maturityAge", "litterSize">>,
                      mutationRate, LIFECYCLE_ATTRIBUTE_BOUNDS, rng), LAMBDA m :
        [attributes |-> [maxAge |-> RoundHalves(m.attributes.maxAge),
                         maturityAge |-> RoundHalves(m.attributes.maturityAge),
                         litterSize |-> RoundHalves(m.attributes.litterSize)],
         rng |-> m.rng])

\* ensureMaturityLessThanMaxAge that returns the lifecycle attributes as mutated
maturityAsMutated(l) == l

ensureMaturityLessThanMaxAge(l) ==
    IF l.maturityAge >= l.maxAge THEN [l EXCEPT !.maturityAge = l.maxAge - 1] ELSE l

\* (parent1Value + parent2Value) / 2
inheritAttribute(parent1Value, parent2Value) == (parent1Value + parent2Value) \div 2

inheritBaseAttributes(p1, p2) ==
    [k \in DOMAIN p1 |-> inheritAttribute(p1[k], p2[k])]

inheritBehavioralAttributes(p1, p2) ==
    [k \in DOMAIN p1 |-> inheritAttribute(p1[k], p2[k])]

\* in halves: the half a mean of two whole numbers may carry reaches Math.round
inheritLifecycleAttributes(p1, p2) ==
    [k \in DOMAIN p1 |-> p1[k] + p2[k]]

\* createOffspringAttributes: [baseAttributes, behavioralAttributes, lifecycleAttributes, rng]
createOffspringAttributes(parent1, parent2, rng, cfg) ==
    With(mutateBaseAttributes(
             inheritBaseAttributes(parent1.baseAttributes, parent2.baseAttributes),
             cfg.BASE_MUTATION_RATE, rng), LAMBDA b :
    With(mutateBehavioralAttributes(
             inheritBehavioralAttributes(parent1.behavioralAttributes,
                                         parent2.behavioralAttributes),
             cfg.BEHAVIORAL_MUTATION_RATE, b.rng), LAMBDA h :
    With(mutateLifecycleAttributes(
             inheritLifecycleAttributes(parent1.lifecycleAttributes,
                                        parent2.lifecycleAttributes),
             cfg.LIFECYCLE_MUTATION_RATE, h.rng), LAMBDA l :
        [baseAttributes |-> b.attributes,
         behavioralAttributes |-> h.attributes,
         lifecycleAttributes |-> ensureMaturityLessThanMaxAge(l.attributes),
         rng |-> l.rng])))


(***************************************************************************)
(* core/TickLoop.ts                                                        *)
(***************************************************************************)
\* sortByAlertRange: a stable sort, alertRange descending, nothing else compared
RECURSIVE InsertByAlertRange(_, _)
InsertByAlertRange(sorted, e) ==
    IF sorted = <<>> THEN <<e>>
    ELSE IF e.derivedStats.alertRange > Head(sorted).derivedStats.alertRange
    THEN <<e>> \o sorted
    ELSE <<Head(sorted)>> \o InsertByAlertRange(Tail(sorted), e)

RECURSIVE sortByAlertRange(_)
sortByAlertRange(animals) ==
    IF animals = <<>> THEN <<>>
    ELSE InsertByAlertRange(sortByAlertRange(SubSeq(animals, 1, Len(animals) - 1)),
                            animals[Len(animals)])

\* the animals handed to makeDecision as nearbyAnimals
NearbyAnimals(w, animal) ==
    SelectSeq(getLivingAnimals(w.entityManager), LAMBDA a :
        /\ a.id # animal.id
        /\ distanceSquared(animal.state.position, a.state.position)
             <= animal.derivedStats.alertRange * animal.derivedStats.alertRange)

\* executeDecisionPhase: the loop; dst = [decisions, rng].  The store does not
\* change during the phase
RECURSIVE DecisionLoop(_, _, _, _)
DecisionLoop(dst, order, w, cfg) ==
    IF order = <<>> THEN dst
    ELSE With(makeDecision([animal |-> Head(order),
                            nearbyAnimals |-> NearbyAnimals(w, Head(order)),
                            corpses |-> w.entityManager.corpses,
                            vegetationGrid |-> w.vegetationGrid, config |-> cfg],
                           dst.rng), LAMBDA d :
             DecisionLoop([decisions |-> MapSet(dst.decisions,
                                            [id |-> Head(order).id, action |-> d.action]),
                           rng |-> d.rng],
                          Tail(order), w, cfg))

executeDecisionPhase(w, cfg) ==
    DecisionLoop([decisions |-> <<>>, rng |-> w.rng],
                 sortByAlertRange(getLivingAnimals(w.entityManager)), w, cfg)

\* clampToWorld that clamps at the lower edges only
clampToWorldFromBelow(pos, cfg) ==
    [x |-> Max(0, pos.x), y |-> Max(0, pos.y)]

clampToWorld(pos, cfg) ==
    [x |-> clamp(pos.x, 0, D(cfg.WORLD_WIDTH)), y |-> clamp(pos.y, 0, D(cfg.WORLD_HEIGHT))]

updateAnimalState(animal, updates) ==
    [animal EXCEPT !.state = [k \in DOMAIN @ |->
                                 IF k \in DOMAIN updates THEN updates[k] ELSE @[k]]]

\* the death of an animal (case 'DIE', and the prey of case 'ATTACK'): it is marked
\* dead, leaves the index, and its corpse is stored
Kill(st, animal, cfg) ==
    With(updateAnimalState(animal, [isDead |-> TRUE]), LAMBDA deadAnimal :
    With(createCorpseFromAnimal(deadAnimal, cfg, NextId("corpse", st.corpseIdGen)),
         LAMBDA corpse :
        [st EXCEPT !.deaths = Append(@, animal.id),
                   !.entityManager = addCorpse(updateAnimal(@, animal.id, deadAnimal), corpse),
                   !.animalSpatialIndex = SpatialRemove(@, animal.id),
                   !.corpseIdGen = @ + 1,
                   !.corpsesCreated = Append(@, corpse)]))

\* entityManager.updateAnimal, then animalSpatialIndex.update
StoreMoved(st, updatedAnimal) ==
    [st EXCEPT !.entityManager = updateAnimal(@, updatedAnimal.id, updatedAnimal),
               !.animalSpatialIndex = SpatialUpdate(@, animalToSpatialEntity(updatedAnimal))]

\* case 'FLEE' and case 'DRIFT': move to the clamped target position
ExecMoveTo(st, animal, action, isFleeing, cfg) ==
    IF action.targetPosition = None THEN st
    ELSE With(clampToWorld(action.targetPosition[1], cfg), LAMBDA newPos :
             StoreMoved(st, applyHungerDecay(applyMovementCost(
                                updateAnimalState(animal, [position |-> newPos]),
                                distance(animal.state.position, newPos), isFleeing, cfg))))

\* the most a corpse yields per bite (hundredths)
EAT_UP_TO == 2000

\* the animal fed by amount (hundredths), then decayed
Fed(animal, amount, cfg) ==
    applyHungerDecay(updateAnimalState(animal,
        [hunger |-> Min(H(cfg.MAX_HUNGER), animal.state.hunger + amount)]))

\* case 'EAT', details 'vegetation'
ExecEatVegetation(st, animal, cfg) ==
    With(worldToGrid(st.vegetationGrid, animal.state.position.x, animal.state.position.y),
         LAMBDA gridPos :
        IF VegHas(st.vegetationGrid, gridPos.x, gridPos.y)
        THEN [st EXCEPT !.vegetationGrid = VegRemove(@, gridPos.x, gridPos.y),
                        !.entityManager =
                            updateAnimal(@, animal.id,
                                         Fed(animal, H(cfg.VEGETATION_FOOD_VALUE), cfg))]
        ELSE st)

\* case 'EAT', details 'corpse': updatedCorpse is a local; the store keeps the
\* corpse it had unless the bite exhausts it
ExecEatCorpse(st, animal, corpse, cfg) ==
    IF corpse.foodValue > 0
    THEN With(Min(corpse.foodValue, EAT_UP_TO), LAMBDA amountToEat :
         With([corpse EXCEPT !.foodValue = @ - amountToEat], LAMBDA updatedCorpse :
             IF updatedCorpse.foodValue <= 0
             THEN [st EXCEPT !.entityManager =
                                 removeCorpse(updateAnimal(@, animal.id,
                                                  Fed(animal, amountToEat, cfg)), corpse.id),
                             !.corpsesRemoved = Append(@, corpse.id)]
             ELSE [st EXCEPT !.entityManager =
                                 updateAnimal(@, animal.id, Fed(animal, amountToEat, cfg))]))
    ELSE st

\* case 'EAT'
ExecEat(st, animal, action, cfg) ==
    IF action.details = "vegetation" THEN ExecEatVegetation(st, animal, cfg)
    ELSE IF /\ action.details = "corpse"
            /\ action.targetId # None
            /\ MapHas(st.entityManager.corpses, action.targetId[1])
    THEN ExecEatCorpse(st, animal, MapGet(st.entityManager.corpses, action.targetId[1]), cfg)
    ELSE st

\* case 'MOVE_TO_FOOD' and case 'MOVE_TO_MATE'
ExecMoveToward(st, animal, action, cfg) ==
    IF action.targetPosition = None THEN st
    ELSE With(Min(animal.derivedStats.speed,
                  distance(animal.state.position, action.targetPosition[1])),
              LAMBDA moveDistance :
             StoreMoved(st, applyHungerDecay(applyMovementCost(
                 updateAnimalState(animal,
                     [position |-> clampToWorld(
                         MoveAlong(animal.state.position,
                             [x |-> action.targetPosition[1].x - animal.state.position.x,
                              y |-> action.targetPosition[1].y - animal.state.position.y],
                             moveDistance), cfg)]),
                 moveDistance, FALSE, cfg))))

\* case 'ATTACK' without the test !prey.state.isDead
ExecAttackOnTheDead(st, animal, action, cfg) ==
    IF action.targetId = None \/ ~MapHas(st.entityManager.animals, action.targetId[1])
    THEN st
    ELSE With(MapGet(st.entityManager.animals, action.targetId[1]), LAMBDA prey :
             IF ~canKill(animal, prey) THEN st
             ELSE [Kill(st, prey, cfg) EXCEPT !.entityManager =
                      updateAnimal(@, animal.id,
                                   Fed(animal, prey.baseAttributes.size * 100, cfg))])

\* case 'ATTACK'
ExecAttack(st, animal, action, cfg) ==
    IF action.targetId = None \/ ~MapHas(st.entityManager.animals, action.targetId[1])
    THEN st
    ELSE With(MapGet(st.entityManager.animals, action.targetId[1]), LAMBDA prey :
             IF prey.state.isDead \/ ~canKill(animal, prey) THEN st
             ELSE [Kill(st, prey, cfg) EXCEPT !.entityManager =
                      updateAnimal(@, animal.id,
                                   Fed(animal, prey.baseAttributes.size * 100, cfg))])


\* (rng.next() - 0.5) * OFFSPRING_SPAWN_OFFSET_MAX * 2, in tenths
SpawnOffset(u16, cfg) == TruncDiv((u16 - 32768) * (cfg.OFFSPRING_SPAWN_OFFSET_MAX * 2), W16)

\* case 'REPRODUCE': the litter loop
RECURSIVE LitterLoop(_, _, _, _, _, _)
LitterLoop(st, animal, mate, offspringAttrs, i, cfg) ==
    IF i >= animal.lifecycleAttributes.litterSize THEN st
    ELSE With(createAnimal(
                  [species |-> animal.species,
                   position |-> clampToWorld(
                       [x |-> animal.state.position.x + SpawnOffset(RngValue(st.rng), cfg),
                        y |-> animal.state.position.y
                                + SpawnOffset(RngValue(RngAdvance(st.rng)), cfg)], cfg),
                   baseAttributes |-> Some(offspringAttrs.baseAttributes),
                   behavioralAttributes |-> Some(offspringAttrs.behavioralAttributes),
                   lifecycleAttributes |-> Some(offspringAttrs.lifecycleAttributes),
                   parentIds |-> <<Some(animal.id), Some(mate.id)>>,
                   generation |-> Max(animal.generation, mate.generation) + 1,
                   initialHunger |-> Some(H(cfg.INITIAL_HUNGER_OFFSPRING))],
                  cfg,
                  NextId(animal.species,
                         IF animal.species = "deer" THEN st.deerIdGen ELSE st.wolfIdGen)),
              LAMBDA offspring :
             LitterLoop(
                 [st EXCEPT !.rng = RngAdvance(RngAdvance(@)),
                            !.deerIdGen = IF animal.species = "deer" THEN @ + 1 ELSE @,
                            !.wolfIdGen = IF animal.species = "deer" THEN @ ELSE @ + 1,
                            !.entityManager = addAnimal(@, offspring),
                            !.animalSpatialIndex =
                                SpatialInsert(@, animalToSpatialEntity(offspring)),
                            !.births = Append(@, offspring)],
                 animal, mate, offspringAttrs, i + 1, cfg))

\* "Apply reproduction cost to both parents": the parent after the cost and the decay
AfterReproduction(parent, cfg) ==
    applyHungerDecay(updateAnimalState(parent,
        [hunger |-> Max(0, parent.state.hunger - cfg.REPRODUCTION_COST * cfg.MAX_HUNGER),
         ticksSinceLastReproduction |-> 0]))

\* case 'REPRODUCE'
ExecReproduce(st, animal, action, cfg) ==
    IF action.targetId = None \/ ~MapHas(st.entityManager.animals, action.targetId[1])
    THEN st
    ELSE With(MapGet(st.entityManager.animals, action.targetId[1]), LAMBDA mate :
             IF mate.state.isDead THEN st
             ELSE With(createOffspringAttributes(animal, mate, st.rng, cfg), LAMBDA o :
                      [LitterLoop([st EXCEPT !.rng = o.rng], animal, mate, o, 0, cfg)
                          EXCEPT !.entityManager =
                              updateAnimal(updateAnimal(@, animal.id,
                                                        AfterReproduction(animal, cfg)),
                                           mate.id, AfterReproduction(mate, cfg))]))

\* case 'STAY'
ExecStay(st, animal) ==
    [st EXCEPT !.entityManager = updateAnimal(@, animal.id, applyHungerDecay(animal))]

\* the switch on action.type
ExecSwitch(st, animal, action, cfg) ==
    CASE action.type = "DIE" -> Kill(st, animal, cfg)
      [] action.type \in {"FLEE", "DRIFT"} ->
             ExecMoveTo(st, animal, action, action.type = "FLEE", cfg)
      [] action.type = "EAT" -> ExecEat(st, animal, action, cfg)
      [] action.type \in {"MOVE_TO_FOOD", "MOVE_TO_MATE"} ->
             ExecMoveToward(st, animal, action, cfg)
      [] action.type = "ATTACK" -> ExecAttack(st, animal, action, cfg)
      [] action.type = "REPRODUCE" -> ExecReproduce(st, animal, action, cfg)
      [] action.type = "STAY" -> ExecStay(st, animal)
      [] OTHER -> st

\* no living animal of that id is in the store
AnimalGone(st, id) ==
    \/ ~MapHas(st.entityManager.animals, id)
    \/ MapGet(st.entityManager.animals, id).state.isDead

\* the vegetation of the tile that holds the position is gone
VegetationGone(st, position) ==
    ~VegHas(st.vegetationGrid, worldToGrid(st.vegetationGrid, position.x, position.y).x,
            worldToGrid(st.vegetationGrid, position.x, position.y).y)

\* what the action aims at is gone when the actor's turn comes: the vegetation of
\* the tile, the corpse, or the living prey
TargetVanished(st, animal, action) ==
    CASE action.type = "EAT" /\ action.details = "vegetation" ->
             VegetationGone(st, animal.state.position)
      [] action.type = "EAT" /\ action.details = "corpse" ->
             action.targetId = None \/ ~MapHas(st.entityManager.corpses, action.targetId[1])
      [] action.type = "ATTACK" ->
             action.targetId = None \/ AnimalGone(st, action.targetId[1])
      [] action.type = "MOVE_TO_FOOD" /\ action.targetPosition # None ->
             IF action.targetId = None
             THEN VegetationGone(st, action.targetPosition[1])
             ELSE IF action.targetId[1][1] = "corpse"
             THEN ~MapHas(st.entityManager.corpses, action.targetId[1])
             ELSE AnimalGone(st, action.targetId[1])
      [] OTHER -> FALSE

\* the journal entry of one turn of the loop says what the turn changed
\*   "nothing": the store, the grid and the index are as before the turn
\*   "decay"  : only the actor changed, and only by applyHungerDecay
\*   "more"   : anything else
\* and holds the state the store has of the animal when the turn ends, and the ids
\* the turn pushed to deaths
TurnEffect(before, after, animal) ==
    IF /\ after.entityManager = before.entityManager
       /\ after.vegetationGrid = before.vegetationGrid
       /\ after.animalSpatialIndex = before.animalSpatialIndex
    THEN "nothing"
    ELSE IF /\ after.entityManager =
                 updateAnimal(before.entityManager, animal.id, applyHungerDecay(animal))
            /\ after.vegetationGrid = before.vegetationGrid
            /\ after.animalSpatialIndex = before.animalSpatialIndex
    THEN "decay"
    ELSE "more"

\* the ids of the animals, other than the actor, that the store held before the
\* turn and holds after it with another hunger or ticksSinceLastReproduction
OthersCharged(before, after, animal) ==
    {other.id : other \in
        {a \in Range(before.entityManager.animals) :
            /\ a.id # animal.id
            /\ MapHas(after.entityManager.animals, a.id)
            /\ With(MapGet(after.entityManager.animals, a.id), LAMBDA b :
                   \/ b.state.hunger # a.state.hunger
                   \/ b.state.ticksSinceLastReproduction
                        # a.state.ticksSinceLastReproduction)}}

\* Turn without the "Skip if animal died this tick" line: the switch runs for an
\* animal that is in deaths too
TurnWithoutSkip(st, animal, action, skipped, cfg) ==
    With(ExecSwitch(st, animal, action, cfg), LAMBDA after :
        [after EXCEPT !.journal =
            Append(@, [id |-> animal.id, type |-> action.type, skipped |-> skipped,
                       targetVanished |-> TargetVanished(st, animal, action),
                       effect |-> TurnEffect(st, after, animal),
                       state |-> MapGet(after.entityManager.animals, animal.id).state,
                       others |-> OthersCharged(st, after, animal),
                       killed |-> SubSeq(after.deaths, Len(st.deaths) + 1,
                                         Len(after.deaths))])])

\* one turn of the loop for an animal that has a decision: "Skip if animal died
\* this tick", else the switch; the turn is entered in the journal
Turn(st, animal, action, skipped, cfg) ==
    With(IF skipped THEN st ELSE ExecSwitch(st, animal, action, cfg), LAMBDA after :
        [after EXCEPT !.journal =
            Append(@, [id |-> animal.id, type |-> action.type, skipped |-> skipped,
                       targetVanished |-> TargetVanished(st, animal, action),
                       effect |-> TurnEffect(st, after, animal),
                       state |-> MapGet(after.entityManager.animals, animal.id).state,
                       others |-> OthersCharged(st, after, animal),
                       killed |-> SubSeq(after.deaths, Len(st.deaths) + 1,
                                         Len(after.deaths))])])

\* the for loop of executeExecutionPhase over the animals sorted at its start
RECURSIVE ExecLoop(_, _, _, _)
ExecLoop(st, animals, decisions, cfg) ==
    IF animals = <<>> THEN st
    ELSE IF ~MapHas(decisions, Head(animals).id)
    THEN ExecLoop(st, Tail(animals), decisions, cfg)
    ELSE ExecLoop(Turn(st, Head(animals), MapGet(decisions, Head(animals).id).action,
                       \E i \in 1..Len(st.deaths) : st.deaths[i] = Head(animals).id, cfg),
                  Tail(animals), decisions, cfg)

\* "Age all living animals and update reproduction cooldown"
RECURSIVE AgeLoop(_, _, _)
AgeLoop(em, living, deaths) ==
    IF living = <<>> THEN em
    ELSE IF \E i \in 1..Len(deaths) : deaths[i] = Head(living).id
    THEN AgeLoop(em, Tail(living), deaths)
    ELSE AgeLoop(updateAnimal(em, Head(living).id,
                     updateAnimalState(Head(living),
                         [age |-> Head(living).state.age + 1,
                          ticksSinceLastReproduction |->
                              Head(living).state.ticksSinceLastReproduction + 1])),
                 Tail(living), deaths)

\* "Decay corpses": the decayed corpse is a local of the loop body, the store
\* keeps the corpse it had unless the decayed one is exhausted
RECURSIVE CorpseLoop(_, _)
CorpseLoop(st, corpses) ==
    IF corpses = <<>> THEN st
    ELSE IF isCorpseExhausted(decayCorpse(Head(corpses)))
    THEN CorpseLoop(
             [st EXCEPT !.entityManager = removeCorpse(@, Head(corpses).id),
                        !.corpsesRemoved =
                            IF \E i \in 1..Len(@) : @[i] = Head(corpses).id
                            THEN @ ELSE Append(@, Head(corpses).id)],
             Tail(corpses))
    ELSE CorpseLoop(st, Tail(corpses))

\* the context and the empty result lists at the start of executeExecutionPhase
PhaseStart(w) ==
    [entityManager |-> w.entityManager,
     vegetationGrid |-> w.vegetationGrid,
     animalSpatialIndex |-> w.animalSpatialIndex,
     rng |-> w.rng,
     deaths |-> <<>>, births |-> <<>>, corpsesCreated |-> <<>>, corpsesRemoved |-> <<>>,
     corpseIdGen |-> createIdGenerator,
     deerIdGen |-> createIdGenerator,
     wolfIdGen |-> createIdGenerator,
     journal |-> <<>>]

\* PhaseEnd that ages no animal: corpse decay and vegetation spread only
PhaseEndWithoutAging(st, cfg) ==
    With(CorpseLoop(st, st.entityManager.corpses), LAMBDA decayed :
    With(spread(decayed.vegetationGrid, decayed.rng, cfg.VEGETATION_SPREAD_RATE), LAMBDA v :
        [decayed EXCEPT !.vegetationGrid = v.grid, !.rng = v.rng]))

\* executeExecutionPhase after its for loop: aging, corpse decay, vegetation spread
PhaseEnd(st, cfg) ==
    With([st EXCEPT !.entityManager =
             AgeLoop(@, getLivingAnimals(st.entityManager), st.deaths)], LAMBDA aged :
    With(CorpseLoop(aged, aged.entityManager.corpses), LAMBDA decayed :
    With(spread(decayed.vegetationGrid, decayed.rng, cfg.VEGETATION_SPREAD_RATE), LAMBDA v :
        [decayed EXCEPT !.vegetationGrid = v.grid, !.rng = v.rng])))

\* executeExecutionPhase(context, decisions): the context after the phase, with
\* the phase's result lists
executeExecutionPhase(w, decisions, cfg) ==
    PhaseEnd(ExecLoop(PhaseStart(w), sortByAlertRange(getLivingAnimals(w.entityManager)),
                      decisions, cfg), cfg)

\* runTick(context): [world, result]; the result carries the journal of the loop
runTick(w, cfg) ==
    With(executeDecisionPhase(w, cfg), LAMBDA d :
    With(executeExecutionPhase([w EXCEPT !.rng = d.rng], d.decisions, cfg), LAMBDA st :
        [world |-> [w EXCEPT !.entityManager = st.entityManager,
                             !.vegetationGrid = st.vegetationGrid,
                             !.animalSpatialIndex = st.animalSpatialIndex,
                             !.rng = st.rng],
         result |-> [tick |-> w.currentTick, decisions |-> d.decisions,
                     deaths |-> st.deaths, births |-> st.births,
                     corpsesCreated |-> st.corpsesCreated,
                     corpsesRemoved |-> st.corpsesRemoved,
                     journal |-> st.journal]]))


(***************************************************************************)
(* Simulation.ts: the facade                                               *)
(***************************************************************************)
\* the raw configurations the simulation is created with: the default
\* configuration in a small world
SmallWorld(deer, wolves, density, spreadRate, hungerSpawn, foodMultiplier) ==
    [getDefaultConfig EXCEPT
        !.WORLD_WIDTH = 10, !.WORLD_HEIGHT = 10,
        !.INITIAL_DEER_COUNT = deer, !.INITIAL_WOLF_COUNT = wolves,
        !.INITIAL_SPAWN_MIN_DISTANCE = 0,
        !.INITIAL_VEGETATION_DENSITY = density, !.VEGETATION_SPREAD_RATE = spreadRate,
        !.INITIAL_HUNGER_SPAWN = hungerSpawn,
        !.CORPSE_FOOD_MULTIPLIER = foodMultiplier,
        !.BASE_MUTATION_RATE = 0, !.BEHAVIORAL_MUTATION_RATE = 0,
        !.LIFECYCLE_MUTATION_RATE = 0]

\* one deer that starts full in a bare world; a deer and a wolf; two deer on
\* full pasture
Configs ==
    { SmallWorld(1, 0, 0, 0, 100, 50),
      SmallWorld(1, 1, 0, 0, 80, 50),
      SmallWorld(2, 0, 100, 0, 80, 50) }

\* the seeds a simulation is created with, and the ticks a run is followed for
MaxSeed == 2
Seeds == 1..MaxSeed
MaxTicks == 54

\* the multipliers handed to setSpeed (hundredths)
Multipliers == {5, 200}

\* createSimulation(config, seed)
Init ==
    /\ config \in Configs
    /\ actualSeed \in Seeds
    /\ world = initializePopulation(createWorld(config, actualSeed), config)
    /\ isPaused = TRUE
    /\ speed = 100
    /\ pre = None
    /\ result = None
    /\ raw = None
    /\ validated = None
    /\ spawned = <<>>
    /\ original = None
    /\ cloned = None
    /\ fresh = None
    /\ trail = <<>>

\* tick(): the animalDied events, one per death whose animal the store holds; the
\* cause is read off the stored animal after the tick
RECURSIVE emitAnimalDied(_, _)
emitAnimalDied(em, deaths) ==
    IF deaths = <<>> THEN <<>>
    ELSE IF ~MapHas(em.animals, Head(deaths)) THEN emitAnimalDied(em, Tail(deaths))
    ELSE With(MapGet(em.animals, Head(deaths)), LAMBDA animal :
             <<[animal |-> animal,
                cause |-> IF animal.state.hunger <= 0 THEN "starvation"
                          ELSE IF animal.state.age >= animal.lifecycleAttributes.maxAge
                          THEN "old age"
                          ELSE "killed"]>>)
         \o emitAnimalDied(em, Tail(deaths))

\* tick(): the data of the 'tick' event, read off the world when it is emitted
emitTick(w) ==
    [tick |-> w.currentTick,
     deerCount |-> Len(SelectSeq(getLivingAnimals(w.entityManager),
                                 LAMBDA a : a.species = "deer")),
     wolfCount |-> Len(SelectSeq(getLivingAnimals(w.entityManager),
                                 LAMBDA a : a.species = "wolf")),
     vegetationCount |-> Len(w.vegetationGrid.vegetation)]

\* the calls of tick() on the world since it was built, this one included
StepsTaken == IF result = None THEN 1 ELSE result[1].steps + 1

\* tick that emits the 'tick' event before runTick and world.currentTick++
tickThatEmitsFirst ==
    With(runTick(world, config), LAMBDA r :
        /\ world' = [r.world EXCEPT !.currentTick = @ + 1]
        /\ pre' = Some(world)
        /\ result' = Some(r.result @@ [animalDied |->
                                         emitAnimalDied(r.world.entityManager,
                                                        r.result.deaths),
                                       tickEvent |-> emitTick(world),
                                       steps |-> StepsTaken]))

\* tick(): runTick on the world, then world.currentTick++, then the events
tick ==
    With(runTick(world, config), LAMBDA r :
        /\ world' = [r.world EXCEPT !.currentTick = @ + 1]
        /\ pre' = Some(world)
        /\ result' = Some(r.result @@ [animalDied |->
                                         emitAnimalDied(r.world.entityManager,
                                                        r.result.deaths),
                                       tickEvent |->
                                         emitTick([r.world EXCEPT !.currentTick = @ + 1]),
                                       steps |-> StepsTaken]))

\* step()
Step ==
    /\ world.currentTick < MaxTicks
    /\ tick
    /\ UNCHANGED <<config, actualSeed, isPaused, speed, raw, validated, spawned,
                   original, cloned>>

\* gameLoop(currentTime) on a frame at which the tick interval has elapsed
GameLoop ==
    /\ ~isPaused
    /\ world.currentTick < MaxTicks
    /\ tick
    /\ UNCHANGED <<config, actualSeed, isPaused, speed, raw, validated, spawned,
                   original, cloned>>

\* start that runs the first tick itself instead of leaving it to the next frame
StartAndTick ==
    /\ isPaused' = FALSE
    /\ tick
    /\ UNCHANGED <<config, actualSeed, speed, raw, validated, spawned, original, cloned>>

\* start() and resume(): "if (!isPaused) return", else the simulation runs
Start ==
    /\ isPaused' = FALSE
    /\ UNCHANGED <<config, actualSeed, world, speed, pre, result, raw, validated, spawned,
                   original, cloned>>

\* pause(): "if (isPaused) return", else the simulation is paused
Pause ==
    /\ isPaused' = TRUE
    /\ UNCHANGED <<config, actualSeed, world, speed, pre, result, raw, validated, spawned,
                   original, cloned>>

\* reset that builds the new world around the generator of the old one
ResetKeepingGenerator(newSeed) ==
    /\ isPaused' = TRUE
    /\ world' = initializePopulation(
                    [createWorld(config, IF newSeed = None THEN actualSeed ELSE newSeed[1])
                        EXCEPT !.rng.state = world.rng.state],
                    config)
    /\ pre' = None
    /\ result' = None
    /\ UNCHANGED <<config, actualSeed, speed, raw, validated, spawned, original, cloned>>

\* reset that rebuilds the world from the original seed whatever seed it is given
ResetToOriginalSeed(newSeed) ==
    /\ isPaused' = TRUE
    /\ world' = initializePopulation(createWorld(config, actualSeed), config)
    /\ pre' = None
    /\ result' = None
    /\ UNCHANGED <<config, actualSeed, speed, raw, validated, spawned, original, cloned>>

\* reset(newSeed): newSeed is optional
Reset(newSeed) ==
    /\ isPaused' = TRUE
    /\ world' = initializePopulation(
                    createWorld(config, IF newSeed = None THEN actualSeed ELSE newSeed[1]),
                    config)
    /\ pre' = None
    /\ result' = None
    /\ UNCHANGED <<config, actualSeed, speed, raw, validated, spawned, original, cloned>>

\* setSpeed(multiplier)
SetSpeed(multiplier) ==
    /\ speed' = Max(10, Min(1000, multiplier))
    /\ UNCHANGED <<config, actualSeed, world, isPaused, pre, result, raw, validated, spawned,
                   original, cloned>>

Next ==
    \/ Step /\ UNCHANGED <<fresh, trail>>
    \/ GameLoop /\ UNCHANGED <<fresh, trail>>
    \/ Start /\ UNCHANGED <<fresh, trail>>
    \/ Pause /\ UNCHANGED <<fresh, trail>>
    \/ \E newSeed \in {None, Some(MaxSeed)} : Reset(newSeed) /\ UNCHANGED <<fresh, trail>>
    \/ \E multiplier \in Multipliers : SetSpeed(multiplier) /\ UNCHANGED <<fresh, trail>>

Spec == Init /\ [][Next]_vars

(***************************************************************************)
(* Simulation.ts: start, pause, resume and step, each call kept with the   *)
(* state it was made in and the events it emitted                          *)
(***************************************************************************)
\* pause() emits 'paused' unless it returns at once
pauseEmitsAlways(paused) == <<"paused">>

\* pause(): "if (isPaused) return" comes before emitter.emit('paused')
pauseEmits(paused) == IF paused THEN <<>> ELSE <<"paused">>

\* start(): "if (!isPaused) return" comes before emitter.emit('resumed')
startEmits(paused) == IF paused THEN <<"resumed">> ELSE <<>>

\* the ticks a simulation is followed for while its calls are kept
MaxPauseTicks == 2

\* the trail keeps the last two calls
Called(call, emitted) ==
    trail' = (IF trail = <<>> THEN <<>> ELSE <<trail[Len(trail)]>>)
               \o <<[call |-> call, world |-> world, isPaused |-> isPaused,
                     speed |-> speed, emitted |-> emitted]>>

CallStart == Start /\ Called("start", startEmits(isPaused)) /\ UNCHANGED fresh

CallPause == Pause /\ Called("pause", pauseEmits(isPaused)) /\ UNCHANGED fresh

\* resume() is this.start()
CallResume == Start /\ Called("resume", startEmits(isPaused)) /\ UNCHANGED fresh

CallStep ==
    /\ world.currentTick < MaxPauseTicks
    /\ Step
    /\ Called("step", <<"tick">>)
    /\ UNCHANGED fresh

\* a frame of the running simulation at which a tick is due
Frame ==
    /\ world.currentTick < MaxPauseTicks
    /\ GameLoop
    /\ Called("frame", <<"tick">>)
    /\ UNCHANGED fresh

NextPause ==
    \/ CallStart
    \/ CallPause
    \/ CallResume
    \/ CallStep
    \/ Frame

SpecPause == Init /\ [][NextPause]_vars

(***************************************************************************)
(* executeExecutionPhase driven directly: the decisions are handed in      *)
(***************************************************************************)
\* the configurations of the worlds the phase is run on: a deer and a wolf, and
\* two deer on full pasture, each with the entity cap at its population
ExecConfigs ==
    { [SmallWorld(1, 1, 0, 0, 80, 50) EXCEPT !.MAX_ENTITIES = 2],
      [SmallWorld(2, 0, 100, 0, 80, 50) EXCEPT !.MAX_ENTITIES = 2] }

\* the phases a world is followed for
MaxPhases == 2

\* the animals a decision map holds an action for
MaxDeciders == 2

\* the actions a decision map may hold for an animal, as the Action records the
\* switch of executeExecutionPhase reads: to die, to drift to the middle of the
\* world, to attack another living animal, to reproduce with a living animal of
\* its species (itself included), to eat from a stored corpse
ActionsOf(w, animal) ==
    {Action("DIE", None, None, "old age"),
     Action("DRIFT", None, Some([x |-> 50, y |-> 50]), "")}
    \cup {Action("ATTACK", Some(a.id), Some(a.state.position), "")
            : a \in {b \in Range(getLivingAnimals(w.entityManager)) : b.id # animal.id}}
    \cup {Action("REPRODUCE", Some(a.id), None, "")
            : a \in {b \in Range(getLivingAnimals(w.entityManager)) :
                        b.species = animal.species}}
    \cup {Action("EAT", Some(c.id), None, "corpse") : c \in Range(w.entityManager.corpses)}

\* the decision maps that hold one action for every animal of the sequence
RECURSIVE DecisionMaps(_, _)
DecisionMaps(w, animals) ==
    IF animals = <<>> THEN {<<>>}
    ELSE {<<[id |-> Head(animals).id, action |-> a]>> \o rest :
             a \in ActionsOf(w, Head(animals)), rest \in DecisionMaps(w, Tail(animals))}

InitExec ==
    /\ config \in ExecConfigs
    /\ actualSeed = 1
    /\ world = initializePopulation(createWorld(config, actualSeed), config)
    /\ isPaused = TRUE
    /\ speed = 100
    /\ pre = None
    /\ result = None
    /\ raw = None
    /\ validated = None
    /\ spawned = <<>>
    /\ original = None
    /\ cloned = None
    /\ fresh = None
    /\ trail = <<>>

\* executeExecutionPhase(context, decisions) on the world's context, followed by
\* currentTick++ as in tick()
ExecutePhase(decisions) ==
    /\ With(executeExecutionPhase(world, decisions, config), LAMBDA st :
          /\ world' = [world EXCEPT !.entityManager = st.entityManager,
                                    !.vegetationGrid = st.vegetationGrid,
                                    !.animalSpatialIndex = st.animalSpatialIndex,
                                    !.rng = st.rng,
                                    !.currentTick = @ + 1]
          /\ result' = Some([tick |-> world.currentTick, decisions |-> decisions,
                             deaths |-> st.deaths, births |-> st.births,
                             corpsesCreated |-> st.corpsesCreated,
                             corpsesRemoved |-> st.corpsesRemoved,
                             journal |-> st.journal]))
    /\ pre' = Some(world)
    /\ UNCHANGED <<config, actualSeed, isPaused, speed, raw, validated, spawned,
                   original, cloned, fresh, trail>>

\* the animals that are given a decision: the first MaxDeciders living ones
Deciders(w) ==
    SubSeq(getLivingAnimals(w.entityManager), 1,
           Min(MaxDeciders, Len(getLivingAnimals(w.entityManager))))

NextExec ==
    /\ world.currentTick < MaxPhases
    /\ \E decisions \in DecisionMaps(world, Deciders(world)) : ExecutePhase(decisions)

SpecExec == InitExec /\ [][NextExec]_vars


(***************************************************************************)
(* config/validation.ts: validateConfig, and createAnimal on what it       *)
(* returns                                                                 *)
(***************************************************************************)
\* CONFIG_RANGES, in the units of getDefaultConfig (the ui category has no
\* field in the configuration record of the model)
CONFIG_RANGES ==
    [ WORLD_WIDTH |-> [min |-> 500, max |-> 5000],
      WORLD_HEIGHT |-> [min |-> 400, max |-> 4000],
      VEGETATION_TILE_SIZE |-> [min |-> 2, max |-> 20],
      TICK_RATE |-> [min |-> 1, max |-> 60],
      INITIAL_DEER_COUNT |-> [min |-> 1, max |-> 100],
      INITIAL_WOLF_COUNT |-> [min |-> 0, max |-> 50],
      INITIAL_SPAWN_MIN_DISTANCE |-> [min |-> 10, max |-> 200],
      INITIAL_VEGETATION_DENSITY |-> [min |-> 10, max |-> 90],
      VEGETATION_SPREAD_RATE |-> [min |-> 1, max |-> 20],
      VEGETATION_FOOD_VALUE |-> [min |-> 5, max |-> 50],
      MAX_HUNGER |-> [min |-> 50, max |-> 200],
      INITIAL_HUNGER_SPAWN |-> [min |-> 50, max |-> 100],
      INITIAL_HUNGER_OFFSPRING |-> [min |-> 40, max |-> 90],
      SPEED_MULTIPLIER |-> [min |-> 5, max |-> 100],
      PERCEPTION_MULTIPLIER |-> [min |-> 10, max |-> 200],
      BASE_DECAY |-> [min |-> 10, max |-> 200],
      MOVE_COST |-> [min |-> 1, max |-> 20],
      FLEE_COST_BONUS |-> [min |-> 1, max |-> 10],
      REPRODUCTION_COST |-> [min |-> 5, max |-> 50],
      REPRODUCTION_SAFETY_BUFFER |-> [min |-> 10, max |-> 50],
      REPRODUCTION_COOLDOWN |-> [min |-> 20, max |-> 500],
      OFFSPRING_SPAWN_OFFSET_MAX |-> [min |-> 5, max |-> 100],
      BASE_MUTATION_RATE |-> [min |-> 0, max |-> 30],
      BEHAVIORAL_MUTATION_RATE |-> [min |-> 0, max |-> 50],
      LIFECYCLE_MUTATION_RATE |-> [min |-> 0, max |-> 30],
      CORPSE_DECAY_TICKS |-> [min |-> 20, max |-> 500],
      CORPSE_FOOD_MULTIPLIER |-> [min |-> 10, max |-> 200],
      MAX_ENTITIES |-> [min |-> 500, max |-> 10000],
      ENTITY_WARNING_THRESHOLD |-> [min |-> 100, max |-> 5000],
      SPATIAL_INDEX_BUCKET_SIZE |-> [min |-> 20, max |-> 500] ]

clampConfigValue(value, min, max) == Max(min, Min(max, value))

\* RescaleReproduction that leaves the two fields as they were clamped
ReproductionAsClamped(cfg) == cfg

\* validateConfig after its loop over CONFIG_RANGES: the proportional rescaling of
\* REPRODUCTION_COST and REPRODUCTION_SAFETY_BUFFER when their sum exceeds 0.95,
\* to the hundredth; the two checks that follow only warn
RescaleReproduction(cfg) ==
    With(cfg.REPRODUCTION_COST + cfg.REPRODUCTION_SAFETY_BUFFER, LAMBDA total :
        IF total > 95
        THEN [cfg EXCEPT !.REPRODUCTION_COST = (@ * 95) \div total,
                         !.REPRODUCTION_SAFETY_BUFFER = (@ * 95) \div total]
        ELSE cfg)

\* a field that holds NaN, and the null that JSON.stringify writes for it: no
\* comparison holds of NaN, and null compares as the number 0.  Both are written
\* as numbers that no field of a configuration takes
NaN == -999999
JsonNull == -999998

\* JSON.parse(JSON.stringify(config)), field by field
JsonRoundTrip(value) == IF value = NaN THEN JsonNull ELSE value

\* the number a comparison or a sum takes a field's value for
ToNumber(value) == IF value = JsonNull THEN 0 ELSE value

\* "if (value < range.min || value > range.max)"
OutOfRange(value, range) == ToNumber(value) < range.min \/ ToNumber(value) > range.max

\* validateConfig(config): warnings holds what each warning is about; errors is
\* never pushed to
validateConfig(cfg) ==
    With([k \in DOMAIN cfg |->
             IF OutOfRange(JsonRoundTrip(cfg[k]), CONFIG_RANGES[k])
             THEN clampConfigValue(ToNumber(JsonRoundTrip(cfg[k])),
                                   CONFIG_RANGES[k].min, CONFIG_RANGES[k].max)
             ELSE JsonRoundTrip(cfg[k])],
         LAMBDA clamped :
        [valid |-> TRUE,
         errors |-> {},
         warnings |->
             {k \in DOMAIN cfg : OutOfRange(JsonRoundTrip(cfg[k]), CONFIG_RANGES[k])}
             \cup (IF clamped.REPRODUCTION_COST + clamped.REPRODUCTION_SAFETY_BUFFER > 95
                   THEN {"REPRODUCTION_COST + REPRODUCTION_SAFETY_BUFFER"} ELSE {})
             \cup (IF ToNumber(clamped.INITIAL_DEER_COUNT) + ToNumber(clamped.INITIAL_WOLF_COUNT)
                        > clamped.MAX_ENTITIES
                   THEN {"Initial population"} ELSE {})
             \cup (IF D(clamped.SPATIAL_INDEX_BUCKET_SIZE)
                        < 20 * clamped.PERCEPTION_MULTIPLIER
                   THEN {"SPATIAL_INDEX_BUCKET_SIZE"} ELSE {}),
         clampedConfig |-> RescaleReproduction(clamped)])

\* the configurations handed to validateConfig: the default configuration with
\* five of its fields drawn from inside and outside their ranges, one of them
\* from the numbers and NaN
RawConfigs ==
    { [getDefaultConfig EXCEPT !.MAX_HUNGER = maxHunger,
                               !.INITIAL_HUNGER_SPAWN = hungerSpawn,
                               !.REPRODUCTION_COST = cost,
                               !.REPRODUCTION_SAFETY_BUFFER = buffer,
                               !.BASE_MUTATION_RATE = rate]
        : maxHunger \in {40, 50, 100, 250}, hungerSpawn \in {30, 80, 100},
          cost \in {15, 60}, buffer \in {20, 48}, rate \in {5, NaN} }

\* the animals created with a validated configuration
MaxSpawned == 2

InitConfig ==
    /\ raw \in {Some(c) : c \in RawConfigs}
    /\ validated = None
    /\ spawned = <<>>
    /\ original = None
    /\ cloned = None
    /\ fresh = None
    /\ trail = <<>>
    /\ config = getDefaultConfig
    /\ actualSeed = 1
    /\ world = createWorld(getDefaultConfig, 1)
    /\ isPaused = TRUE
    /\ speed = 100
    /\ pre = None
    /\ result = None

\* validateConfig(raw)
Validate ==
    /\ validated = None
    /\ validated' = Some(validateConfig(raw[1]))
    /\ UNCHANGED <<config, actualSeed, world, isPaused, speed, pre, result, raw, spawned,
                   original, cloned, fresh, trail>>

\* createAnimal({species, position}, clampedConfig, idGenerator)
Spawn(species) ==
    /\ validated # None
    /\ Len(spawned) < MaxSpawned
    /\ spawned' = Append(spawned,
                         createAnimal(SpawnOptions(species, [x |-> 0, y |-> 0]),
                                      validated[1].clampedConfig,
                                      NextId(species, Len(spawned))))
    /\ UNCHANGED <<config, actualSeed, world, isPaused, speed, pre, result, raw, validated,
                   original, cloned, fresh, trail>>

NextConfig ==
    \/ Validate
    \/ \E species \in {"deer", "wolf"} : Spawn(species)

SpecConfig == InitConfig /\ [][NextConfig]_vars


(***************************************************************************)
(* Ticks of worlds late in a run: the hunger and the age of the animals are *)
(* drawn instead of being reached by hundreds of ticks                      *)
(***************************************************************************)
\* a deer and a wolf in a bare world, and two deer on full pasture; corpses last
\* two ticks
LateConfigs ==
    { [SmallWorld(1, 1, 0, 0, 80, 50) EXCEPT !.CORPSE_DECAY_TICKS = 2],
      [SmallWorld(2, 0, 100, 0, 80, 50) EXCEPT !.CORPSE_DECAY_TICKS = 2] }

\* hunger (hundredths): starved, less than one tick's decay, hungry, well fed
LateHungers == {0, 30, H(30), H(90)}

\* the ticks a late world is followed for
MaxLateTicks == 3

\* the world with the hunger of its i-th animal set to hunger[i], and its age to
\* maxAge where old[i] and to maturityAge elsewhere
LateWorld(w, hunger, old) ==
    [w EXCEPT !.entityManager.animals = [i \in DOMAIN @ |->
        With(@[i], LAMBDA animal :
            updateAnimalState(animal,
                [hunger |-> hunger[i],
                 age |-> IF old[i] THEN animal.lifecycleAttributes.maxAge
                         ELSE animal.lifecycleAttributes.maturityAge]))]]

\* the world with its second animal moved to where the first one stands
Together(w) ==
    With(updateAnimalState(w.entityManager.animals[2],
                           [position |-> w.entityManager.animals[1].state.position]),
         LAMBDA moved :
        [w EXCEPT !.entityManager = updateAnimal(@, moved.id, moved),
                  !.animalSpatialIndex = SpatialUpdate(@, animalToSpatialEntity(moved))])

InitLate ==
    /\ config \in LateConfigs
    /\ actualSeed \in Seeds
    /\ \E hunger \in [1..2 -> LateHungers], old \in [1..2 -> BOOLEAN],
          together \in BOOLEAN :
          world = With(LateWorld(initializePopulation(createWorld(config, actualSeed),
                                                      config), hunger, old),
                       LAMBDA w : IF together THEN Together(w) ELSE w)
    /\ isPaused = TRUE
    /\ speed = 100
    /\ pre = None
    /\ result = None
    /\ raw = None
    /\ validated = None
    /\ spawned = <<>>
    /\ original = None
    /\ cloned = None
    /\ fresh = None
    /\ trail = <<>>

\* step() on a late world
StepLate ==
    /\ world.currentTick < MaxLateTicks
    /\ tick
    /\ UNCHANGED <<config, actualSeed, isPaused, speed, raw, validated, spawned,
                   original, cloned, fresh, trail>>

SpecLate == InitLate /\ [][StepLate]_vars


(***************************************************************************)
(* core/SeededRandom.ts: clone(), and calls made on both generators        *)
(***************************************************************************)
\* createSeededRandom(seed).clone(): the generator returned holds a clone of the
\* Mulberry32 state and the constant clonedSpare
clone(rng) == [state |-> rng.state, spare |-> rng.spare, seed |-> rng.seed]

\* nextNormal of the generator clone() returned: "let spare = clonedSpare" is a
\* local of the call, so clonedSpare is never cleared and the spare of a draw is
\* never kept
clonedNextNormal(g) ==
    IF g.spare # None THEN [value |-> g.spare[1], rng |-> g]
    ELSE With(nextNormal(g), LAMBDA n :
             [value |-> n.value, rng |-> [n.rng EXCEPT !.spare = None]])

\* the calls made on a generator, and how many of them a run makes
Calls == {"next", "nextNormal"}
MaxCalls == 4

\* a call on a generator: [value, rng]
CallOn(g, call, normal(_)) ==
    IF call = "next" THEN [value |-> RngValue(g), rng |-> RngAdvance(g)] ELSE normal(g)

InitClone ==
    /\ actualSeed \in Seeds
    /\ original = [rng |-> createSeededRandom(actualSeed), out |-> None, calls |-> 0]
    /\ cloned = None
    /\ fresh = None
    /\ trail = <<>>
    /\ config = getDefaultConfig
    /\ world = createWorld(getDefaultConfig, actualSeed)
    /\ isPaused = TRUE
    /\ speed = 100
    /\ pre = None
    /\ result = None
    /\ raw = None
    /\ validated = None
    /\ spawned = <<>>

\* a call on the original before it is cloned
Draw(call) ==
    /\ cloned = None
    /\ original.calls < MaxCalls
    /\ original' = With(CallOn(original.rng, call, nextNormal), LAMBDA c :
                       [rng |-> c.rng, out |-> Some(c.value), calls |-> original.calls + 1])
    /\ UNCHANGED <<config, actualSeed, world, isPaused, speed, pre, result, raw, validated,
                   spawned, cloned, fresh, trail>>

\* clone(): the draws are compared from here on
Clone ==
    /\ cloned = None
    /\ cloned' = Some([rng |-> clone(original.rng), out |-> None])
    /\ original' = [original EXCEPT !.out = None]
    /\ UNCHANGED <<config, actualSeed, world, isPaused, speed, pre, result, raw, validated,
                   spawned, fresh, trail>>

\* the same call on the original and on the clone
CallBoth(call) ==
    /\ cloned # None
    /\ original.calls < MaxCalls
    /\ original' = With(CallOn(original.rng, call, nextNormal), LAMBDA c :
                       [rng |-> c.rng, out |-> Some(c.value), calls |-> original.calls + 1])
    /\ cloned' = With(CallOn(cloned[1].rng, call, clonedNextNormal), LAMBDA c :
                     Some([rng |-> c.rng, out |-> Some(c.value)]))
    /\ UNCHANGED <<config, actualSeed, world, isPaused, speed, pre, result, raw, validated,
                   spawned, fresh, trail>>

NextClone ==
    \/ \E call \in Calls : Draw(call)
    \/ Clone
    \/ \E call \in Calls : CallBoth(call)

SpecClone == InitClone /\ [][NextClone]_vars


(***************************************************************************)
(* genetics/inheritance.ts: createOffspringAttributes on parents whose      *)
(* attributes are drawn, with every mutation rate 0                         *)
(***************************************************************************)
\* the deer a litter is bred from: the species defaults, with a strength, an
\* aggression and a maxAge of its own
ParentOptions ==
    { [SpawnOptions("deer", [x |-> 50, y |-> 50]) EXCEPT
          !.baseAttributes = Some([DEER_BASE_ATTRIBUTES EXCEPT !.strength = strength]),
          !.behavioralAttributes =
              Some([DEER_BEHAVIORAL_ATTRIBUTES EXCEPT !.aggression = aggression]),
          !.lifecycleAttributes = Some([DEER_LIFECYCLE_ATTRIBUTES EXCEPT !.maxAge = maxAge])]
        : strength \in {50, 90}, aggression \in {0, 40}, maxAge \in {800, 900} }

InitInherit ==
    /\ config = SmallWorld(2, 0, 0, 0, 80, 50)
    /\ actualSeed \in Seeds
    /\ world = createWorld(config, actualSeed)
    /\ \E o1 \in ParentOptions, o2 \in ParentOptions :
          spawned = <<createAnimal(o1, config, NextId("deer", 0)),
                      createAnimal(o2, config, NextId("deer", 1))>>
    /\ isPaused = TRUE
    /\ speed = 100
    /\ pre = None
    /\ result = None
    /\ raw = None
    /\ validated = None
    /\ original = None
    /\ cloned = None
    /\ fresh = None
    /\ trail = <<>>

\* the offspring bred from a pair and from their offspring
MaxBred == 2

\* case 'REPRODUCE' for one offspring: createOffspringAttributes(animal, mate, rng,
\* config), then createAnimal with the attributes it returned
Breed(animal, mate) ==
    /\ Len(spawned) < 2 + MaxBred
    /\ With(createOffspringAttributes(animal, mate, world.rng, config), LAMBDA o :
          /\ spawned' = Append(spawned,
                 createAnimal(
                     [species |-> animal.species,
                      position |-> animal.state.position,
                      baseAttributes |-> Some(o.baseAttributes),
                      behavioralAttributes |-> Some(o.behavioralAttributes),
                      lifecycleAttributes |-> Some(o.lifecycleAttributes),
                      parentIds |-> <<Some(animal.id), Some(mate.id)>>,
                      generation |-> Max(animal.generation, mate.generation) + 1,
                      initialHunger |-> Some(H(config.INITIAL_HUNGER_OFFSPRING))],
                     config, NextId(animal.species, Len(spawned))))
          /\ world' = [world EXCEPT !.rng = o.rng])
    /\ UNCHANGED <<config, actualSeed, isPaused, speed, pre, result, raw, validated,
                   original, cloned, fresh, trail>>

NextInherit ==
    \E i, j \in 1..Len(spawned) : i # j /\ Breed(spawned[i], spawned[j])

SpecInherit == InitInherit /\ [][NextInherit]_vars

\* the same with the mutation rates at the top of their ranges, on a pair of
\* deer or of wolves with the species defaults, or of deer whose maturityAge is
\* close to their maxAge and whose flightInstinct is close to its maximum
\* the seeds the mutated offspring are drawn with
MaxMutateSeed == 4

MutatedOptions ==
    { SpawnOptions("deer", [x |-> 50, y |-> 50]),
      SpawnOptions("wolf", [x |-> 50, y |-> 50]),
      [SpawnOptions("deer", [x |-> 50, y |-> 50]) EXCEPT
          !.behavioralAttributes =
              Some([DEER_BEHAVIORAL_ATTRIBUTES EXCEPT !.flightInstinct = 95]),
          !.lifecycleAttributes =
              Some([DEER_LIFECYCLE_ATTRIBUTES EXCEPT !.maxAge = 60, !.maturityAge = 58])] }

InitMutate ==
    /\ config = [SmallWorld(2, 0, 0, 0, 80, 50) EXCEPT
                    !.BASE_MUTATION_RATE = 30, !.BEHAVIORAL_MUTATION_RATE = 50,
                    !.LIFECYCLE_MUTATION_RATE = 30]
    /\ actualSeed \in 1..MaxMutateSeed
    /\ world = createWorld(config, actualSeed)
    /\ \E o1 \in MutatedOptions, o2 \in MutatedOptions :
          /\ o1.species = o2.species
          /\ spawned = <<createAnimal(o1, config, NextId(o1.species, 0)),
                         createAnimal(o2, config, NextId(o2.species, 1))>>
    /\ isPaused = TRUE
    /\ speed = 100
    /\ pre = None
    /\ result = None
    /\ raw = None
    /\ validated = None
    /\ original = None
    /\ cloned = None
    /\ fresh = None
    /\ trail = <<>>

SpecMutate == InitMutate /\ [][NextInherit]_vars


(***************************************************************************)
(* executeDecisionPhase on a store the animals were added to in any order  *)
(***************************************************************************)
\* the animals added to the store: three deer of the same attributes, hence of
\* the same alertRange, and a wolf, all in the middle of the world
SortPool ==
    { createAnimal(SpawnOptions("deer", [x |-> 50, y |-> 50]), SmallWorld(0, 0, 0, 0, 80, 50),
                   NextId("deer", k)) : k \in 0..2 }
    \cup { createAnimal(SpawnOptions("wolf", [x |-> 50, y |-> 50]),
                        SmallWorld(0, 0, 0, 0, 80, 50), NextId("wolf", 0)) }

\* the animals a store is followed up to
MaxAdded == 3

InitSort ==
    /\ config = SmallWorld(0, 0, 0, 0, 80, 50)
    /\ actualSeed = 1
    /\ world = createWorld(config, actualSeed)
    /\ isPaused = TRUE
    /\ speed = 100
    /\ pre = None
    /\ result = None
    /\ raw = None
    /\ validated = None
    /\ spawned = <<>>
    /\ original = None
    /\ cloned = None
    /\ fresh = None
    /\ trail = <<>>

\* entityManager.addAnimal(animal), for an animal the store does not hold
AddAnimal(animal) ==
    /\ Len(world.entityManager.animals) < MaxAdded
    /\ ~MapHas(world.entityManager.animals, animal.id)
    /\ world' = [world EXCEPT !.entityManager = addAnimal(@, animal)]
    /\ UNCHANGED <<config, actualSeed, isPaused, speed, pre, result, raw, validated,
                   spawned, original, cloned, fresh, trail>>

\* executeDecisionPhase(context): the decisions, in the order they were set
Decide ==
    /\ result' = Some([decisions |-> executeDecisionPhase(world, config).decisions])
    /\ pre' = Some(world)
    /\ UNCHANGED <<config, actualSeed, world, isPaused, speed, raw, validated,
                   spawned, original, cloned, fresh, trail>>

NextSort ==
    \/ \E animal \in SortPool : AddAnimal(animal)
    \/ Decide

SpecSort == InitSort /\ [][NextSort]_vars


(***************************************************************************)
(* The spatial index queried directly, for several bucket sizes            *)
(***************************************************************************)
\* the bucket sizes of the indexes: smaller than the alertRange of a deer (7),
\* and the least that validateConfig returns
BucketSizes == {2, 5, 20}

\* the entities indexed: a deer and a wolf by their sizes, at places along the
\* middle of the world (tenths)
IndexedPlaces == {[x |-> 10, y |-> 50], [x |-> 45, y |-> 50], [x |-> 55, y |-> 50],
                  [x |-> 90, y |-> 50]}
IndexedEntities ==
    { [id |-> NextId("deer", 0), position |-> p, size |-> DEER_BASE_ATTRIBUTES.size]
        : p \in IndexedPlaces }
    \cup { [id |-> NextId("wolf", 0), position |-> p, size |-> WOLF_BASE_ATTRIBUTES.size]
            : p \in IndexedPlaces }

\* the centres and the radii of the queries (tenths)
QueryCentres == {[x |-> 40, y |-> 50], [x |-> 5, y |-> 5]}
QueryRadii == {5, 30, 70}

\* the entities an index is followed up to
MaxIndexed == 2

InitQuery ==
    /\ config = SmallWorld(0, 0, 0, 0, 80, 50)
    /\ actualSeed = 1
    /\ \E bucketSize \in BucketSizes :
          world = [createWorld(config, actualSeed) EXCEPT
                      !.animalSpatialIndex =
                          createSpatialIndex(bucketSize, config.WORLD_WIDTH,
                                             config.WORLD_HEIGHT)]
    /\ isPaused = TRUE
    /\ speed = 100
    /\ pre = None
    /\ result = None
    /\ raw = None
    /\ validated = None
    /\ spawned = <<>>
    /\ original = None
    /\ cloned = None
    /\ fresh = None
    /\ trail = <<>>

\* animalSpatialIndex.insert(entity), for an entity the index does not hold
IndexInsert(entity) ==
    /\ Len(world.animalSpatialIndex.allEntities) < MaxIndexed
    /\ ~MapHas(world.animalSpatialIndex.allEntities, entity.id)
    /\ world' = [world EXCEPT !.animalSpatialIndex = SpatialInsert(@, entity)]
    /\ UNCHANGED <<config, actualSeed, isPaused, speed, pre, result, raw, validated,
                   spawned, original, cloned, fresh, trail>>

\* animalSpatialIndex.queryRadius(center, radius)
IndexQuery(center, radius) ==
    /\ result' = Some([center |-> center, radius |-> radius,
                       found |-> queryRadius(world.animalSpatialIndex, center, radius)])
    /\ pre' = Some(world)
    /\ UNCHANGED <<config, actualSeed, world, isPaused, speed, raw, validated,
                   spawned, original, cloned, fresh, trail>>

NextQuery ==
    \/ \E entity \in IndexedEntities : IndexInsert(entity)
    \/ \E center \in QueryCentres, radius \in QueryRadii : IndexQuery(center, radius)

SpecQuery == InitQuery /\ [][NextQuery]_vars


(***************************************************************************)
(* The vegetation grid spread directly                                     *)
(***************************************************************************)
\* the spread rates of the passes (hundredths): the highest validateConfig
\* returns, and 1
SpreadRates == {20, 100}

\* the passes a grid is followed for
MaxSpreads == 2

\* a grid of 5 by 5 tiles with one tile of vegetation
InitSpread ==
    /\ config = [SmallWorld(0, 0, 0, 0, 80, 50) EXCEPT !.VEGETATION_TILE_SIZE = 2]
    /\ actualSeed \in Seeds
    /\ \E gridX, gridY \in 0..4 :
          world = [createWorld(config, actualSeed) EXCEPT
                      !.vegetationGrid = VegSet(@, gridX, gridY)]
    /\ isPaused = TRUE
    /\ speed = 100
    /\ pre = None
    /\ result = None
    /\ raw = None
    /\ validated = None
    /\ spawned = <<>>
    /\ original = None
    /\ cloned = None
    /\ fresh = None
    /\ trail = <<>>

\* vegetationGrid.spread(rng, spreadRate), counted in currentTick
Spread(spreadRate) ==
    /\ world.currentTick < MaxSpreads
    /\ With(spread(world.vegetationGrid, world.rng, spreadRate), LAMBDA v :
          world' = [world EXCEPT !.vegetationGrid = v.grid, !.rng = v.rng,
                                 !.currentTick = @ + 1])
    /\ pre' = Some(world)
    /\ UNCHANGED <<config, actualSeed, isPaused, speed, result, raw, validated,
                   spawned, original, cloned, fresh, trail>>

NextSpread == \E spreadRate \in SpreadRates : Spread(spreadRate)

SpecSpread == InitSpread /\ [][NextSpread]_vars


(***************************************************************************)
(* Ticks of one deer alone in a bare world, around the point at which it is *)
(* ready to reproduce                                                       *)
(***************************************************************************)
\* the seeds such a world is created with
MaxReadySeed == 4

\* the hunger of a deer (hundredths) relative to its required hunger
HungerMargins == {-1, 0, 1}

InitReady ==
    /\ config = SmallWorld(1, 0, 0, 0, 80, 50)
    /\ actualSeed \in 1..MaxReadySeed
    /\ \E margin \in HungerMargins, young, resting \in BOOLEAN :
          world = With(initializePopulation(createWorld(config, actualSeed), config),
                       LAMBDA w :
              [w EXCEPT !.entityManager.animals = [i \in DOMAIN @ |->
                  With(@[i], LAMBDA animal :
                      updateAnimalState(animal,
                          [hunger |-> requiredHunger(animal, config) + margin,
                           age |-> animal.lifecycleAttributes.maturityAge
                                   - (IF young THEN 1 ELSE 0),
                           ticksSinceLastReproduction |->
                               config.REPRODUCTION_COOLDOWN
                               - (IF resting THEN 1 ELSE 0)]))]])
    /\ isPaused = TRUE
    /\ speed = 100
    /\ pre = None
    /\ result = None
    /\ raw = None
    /\ validated = None
    /\ spawned = <<>>
    /\ original = None
    /\ cloned = None
    /\ fresh = None
    /\ trail = <<>>

SpecReady == InitReady /\ [][StepLate]_vars


(***************************************************************************)
(* Ticks of a wolf that stands by a deer, both well fed, under the values   *)
(* of MAX_HUNGER that validateConfig accepts                                *)
(***************************************************************************)
\* the least, the default and the greatest MAX_HUNGER of CONFIG_RANGES
FullConfigs ==
    { [SmallWorld(1, 1, 0, 0, 80, 50) EXCEPT !.MAX_HUNGER = maxHunger] :
        maxHunger \in {50, 100, 200} }

\* the hunger of the animals, in hundredths of MAX_HUNGER: full, and well fed
Fullness == {100, 80}

\* the seeds such a world is created with
MaxFullSeed == 4

InitFull ==
    /\ config \in FullConfigs
    /\ actualSeed \in 1..MaxFullSeed
    /\ \E fullness \in Fullness, together \in BOOLEAN :
          world = With(LateWorld(initializePopulation(createWorld(config, actualSeed),
                                                      config),
                                 [i \in 1..2 |-> config.MAX_HUNGER * fullness],
                                 [i \in 1..2 |-> FALSE]),
                       LAMBDA w : IF together THEN Together(w) ELSE w)
    /\ isPaused = TRUE
    /\ speed = 100
    /\ pre = None
    /\ result = None
    /\ raw = None
    /\ validated = None
    /\ spawned = <<>>
    /\ original = None
    /\ cloned = None
    /\ fresh = None
    /\ trail = <<>>

SpecFull == InitFull /\ [][StepLate]_vars


(***************************************************************************)
(* Ticks of a wolf that stands by a deer and is about as strong as the deer *)
(* is tough                                                                 *)
(***************************************************************************)
\* the strength of the wolf (tenths), its size being 1: an attackPower below,
\* equal to and above the defense 4.6 of the deer, and the default strength
DuelStrengths == {45, 46, 47, 120}

\* the seeds such a world is created with
MaxDuelSeed == 4

\* the world with the base attributes of its wolves replaced, and their derived
\* stats calculated from them as createAnimal does
DuelWorld(w, base, cfg) ==
    [w EXCEPT !.entityManager.animals = [i \in DOMAIN @ |->
        IF @[i].species = "wolf"
        THEN [@[i] EXCEPT !.baseAttributes = base,
                          !.derivedStats = calculateAllDerivedStats(base, cfg)]
        ELSE @[i]]]

InitDuel ==
    /\ config = SmallWorld(1, 1, 0, 0, 80, 50)
    /\ actualSeed \in 1..MaxDuelSeed
    /\ \E strength \in DuelStrengths, hunger \in {H(30), H(90)} :
          world = Together(DuelWorld(
                      LateWorld(initializePopulation(createWorld(config, actualSeed),
                                                     config),
                                [i \in 1..2 |-> hunger], [i \in 1..2 |-> FALSE]),
                      [WOLF_BASE_ATTRIBUTES EXCEPT !.strength = strength, !.size = 10],
                      config))
    /\ isPaused = TRUE
    /\ speed = 100
    /\ pre = None
    /\ result = None
    /\ raw = None
    /\ validated = None
    /\ spawned = <<>>
    /\ original = None
    /\ cloned = None
    /\ fresh = None
    /\ trail = <<>>

SpecDuel == InitDuel /\ [][StepLate]_vars


(***************************************************************************)
(* Ticks of two wolves that stand by one deer, which may be at its maxAge    *)
(***************************************************************************)
\* the seeds such a world is created with
MaxPackSeed == 3

\* the world with its i-th animal moved to where the first one stands
Beside(w, i) ==
    With(updateAnimalState(w.entityManager.animals[i],
                           [position |-> w.entityManager.animals[1].state.position]),
         LAMBDA moved :
        [w EXCEPT !.entityManager = updateAnimal(@, moved.id, moved),
                  !.animalSpatialIndex = SpatialUpdate(@, animalToSpatialEntity(moved))])

InitPack ==
    /\ config = [SmallWorld(1, 2, 0, 0, 80, 50) EXCEPT !.CORPSE_DECAY_TICKS = 2]
    /\ actualSeed \in 1..MaxPackSeed
    /\ \E hunger \in [1..3 -> {30, H(30), H(90)}], old \in BOOLEAN :
          world = Beside(Beside(
                      LateWorld(initializePopulation(createWorld(config, actualSeed),
                                                     config),
                                hunger, [i \in 1..3 |-> old /\ i = 1]), 2), 3)
    /\ isPaused = TRUE
    /\ speed = 100
    /\ pre = None
    /\ result = None
    /\ raw = None
    /\ validated = None
    /\ spawned = <<>>
    /\ original = None
    /\ cloned = None
    /\ fresh = None
    /\ trail = <<>>

SpecPack == InitPack /\ [][StepLate]_vars


(***************************************************************************)
(* The properties                                                          *)
(***************************************************************************)
\* what the last tick returned and the journal of its loop
Ticked == result # None
Journal == IF Ticked THEN result[1].journal ELSE <<>>
Decisions == IF Ticked THEN result[1].decisions ELSE <<>>
Births == IF Ticked THEN result[1].births ELSE <<>>
Deaths == IF Ticked THEN result[1].deaths ELSE <<>>
Stored == world.entityManager
StoredBefore == pre[1].entityManager
Living == getLivingAnimals(world.entityManager)
Indexed == world.animalSpatialIndex.allEntities

\* steps calls of step() on a world, within the ticks a run is followed for
RECURSIVE Stepped(_, _, _)
Stepped(w, cfg, steps) ==
    IF steps = 0 \/ w.currentTick >= MaxTicks THEN w
    ELSE With(runTick(w, cfg), LAMBDA r :
             Stepped([r.world EXCEPT !.currentTick = @ + 1], cfg, steps - 1))

\* createSimulation(cfg, seed) followed by steps calls of step(): the world
Replayed(cfg, seed, steps) ==
    Stepped(initializePopulation(createWorld(cfg, seed), cfg), cfg, steps)

(***************************************************************************)
(* Simulation.ts: reset, with a simulation newly created beside            *)
(***************************************************************************)
\* reset(newSeed), and createSimulation(config, seed) beside it with the seed
\* given, or with the original seed when none is given
ResetBeside(newSeed) ==
    /\ Reset(newSeed)
    /\ fresh' = Some(initializePopulation(
                         createWorld(config,
                                     IF newSeed = None THEN actualSeed ELSE newSeed[1]),
                         config))
    /\ UNCHANGED trail

\* step() on both simulations
StepBoth ==
    /\ fresh # None
    /\ Step
    /\ fresh' = Some(Stepped(fresh[1], config, 1))
    /\ UNCHANGED trail

NextReset ==
    \/ fresh = None /\ Step /\ UNCHANGED <<fresh, trail>>
    \/ \E newSeed \in {None, Some(MaxSeed)} : ResetBeside(newSeed)
    \/ StepBoth

SpecReset == Init /\ [][NextReset]_vars

C4_ReproduceProducesOffspring ==
    \A i \in 1..Len(Decisions) :
        (/\ Decisions[i].action.type = "REPRODUCE"
         /\ Len(StoredBefore.animals) + Len(StoredBefore.corpses) < config.MAX_ENTITIES)
        => \E b \in 1..Len(Births) :
               /\ Births[b].parentIds[1] = Some(Decisions[i].id)
               /\ MapHas(Stored.animals, Births[b].id)
               /\ MapHas(Indexed, Births[b].id)

\* C5: every tick lowers the stored decayTimer of every corpse by exactly 1: a
\* corpse that the store held before the tick and holds after it has a decayTimer
\* one lower than before
C5_DecayTimerLoweredByOne ==
    Ticked =>
        \A i \in 1..Len(Stored.corpses) : \A j \in 1..Len(StoredBefore.corpses) :
            (/\ Stored.corpses[i].id = StoredBefore.corpses[j].id
             /\ Stored.corpses[i].sourceId = StoredBefore.corpses[j].sourceId)
            => Stored.corpses[i].decayTimer = StoredBefore.corpses[j].decayTimer - 1

\* C6: eating from a corpse subtracts the eaten amount from the corpse's stored
\* foodValue: after a tick in which an animal ate from a corpse that is still in
\* the store, the gain of the eater is not more than what the stored foodValue
\* dropped by
C6_EatingLowersTheStoredFoodValue ==
    \A i \in 1..Len(Journal) :
        (/\ Journal[i].type = "EAT"
         /\ Journal[i].effect = "more"
         /\ MapGet(Decisions, Journal[i].id).action.details = "corpse"
         /\ MapHas(Stored.corpses, MapGet(Decisions, Journal[i].id).action.targetId[1]))
        => MapGet(Stored.corpses, MapGet(Decisions, Journal[i].id).action.targetId[1]).foodValue
             < MapGet(StoredBefore.corpses,
                      MapGet(Decisions, Journal[i].id).action.targetId[1]).foodValue

\* C7: an Eat, Attack or MoveToFood action whose target no longer exists when it is
\* executed changes nothing in the world except that the actor's per-tick hunger
\* decay is applied
C7_VanishedTargetOnlyDecays ==
    \A i \in 1..Len(Journal) :
        (/\ Journal[i].type \in {"EAT", "ATTACK", "MOVE_TO_FOOD"}
         /\ Journal[i].targetVanished
         /\ ~Journal[i].skipped)
        => Journal[i].effect = "decay"

C9_HungerWithinBounds ==
    \A i \in 1..Len(spawned) :
        /\ spawned[i].state.hunger >= 0
        /\ spawned[i].state.hunger <= H(validated[1].clampedConfig.MAX_HUNGER)

\* C10: an animal that is already in the tick's deaths when its turn comes performs
\* none of its decided action: its turn leaves the store, the vegetation and the
\* spatial index as they were
C10_TheDeadDoNotAct ==
    \A i \in 1..Len(Journal) : Journal[i].skipped => Journal[i].effect = "nothing"

\* an animal killed by an earlier attacker had decided to move, attack, eat or
\* reproduce
C10_AVictimHadDecidedToAct ==
    \E i \in 1..Len(Journal) :
        /\ Journal[i].skipped
        /\ Journal[i].type \in {"DRIFT", "ATTACK", "EAT", "REPRODUCE"}
        /\ \E k \in 1..(i - 1) : Journal[k].type = "ATTACK" /\ Journal[k].effect = "more"

\* C11: every decision of a tick that was made for an animal whose hunger was at
\* most 0 or whose age was at least its maxAge at decision time is DIE
C11_TheStarvedAndTheOldDecideToDie ==
    Ticked =>
        \A i \in 1..Len(Decisions) :
            With(MapGet(StoredBefore.animals, Decisions[i].id), LAMBDA animal :
                (\/ animal.state.hunger <= 0
                 \/ animal.state.age >= animal.lifecycleAttributes.maxAge)
                    => Decisions[i].action.type = "DIE")

\* an old, well-fed animal that was ready to reproduce and had a threat in its
\* alert range decided to die
C11_DiedThoughThreatenedAndReady ==
    /\ Ticked
    /\ \E i \in 1..Len(Decisions) :
          With(MapGet(StoredBefore.animals, Decisions[i].id), LAMBDA animal :
              /\ Decisions[i].action.type = "DIE"
              /\ animal.state.hunger > 0
              /\ isReproductionReady(animal, config)
              /\ findThreats(animal, NearbyAnimals(pre[1], animal)) # <<>>)

\* C12: every animalDied event of a tick carries the cause that removed the
\* animal: the cause of its Die decision when the animal executed that decision,
\* and "killed" when it is in the deaths of the tick without having executed one
C12_EventsCarryTheCauseOfDeath ==
    Ticked =>
        \A e \in Range(result[1].animalDied) :
            IF \E j \in Range(Journal) : j.id = e.animal.id /\ j.type = "DIE" /\ ~j.skipped
            THEN e.cause = MapGet(Decisions, e.animal.id).action.details
            ELSE e.cause = "killed"

\* C13: from the clone point on, every call made on both generators returns the
\* same value from the clone as from the original
C13_CloneDrawsWhatTheOriginalDraws ==
    cloned # None => cloned[1].out = original.out

\* C14: after reset(seed) and any number of step() calls the world is the world
\* of a simulation newly created with that seed and stepped as often; after
\* reset() it is that of one newly created with the original seed
C14_ResetRunIsTheFreshRun ==
    fresh # None => world = fresh[1]

\* a simulation reset to a seed other than its own and stepped three times since
C14_ResetToAnotherSeedAndStepped ==
    /\ fresh # None
    /\ world.rng.seed # actualSeed
    /\ world.currentTick >= 3

\* C15: a pause() called on a paused simulation changes no state (world, paused
\* flag, speed) and emits no event
C15_PauseWhenPausedChangesNothing ==
    trail # <<>> =>
        With(trail[Len(trail)], LAMBDA c :
            (c.call = "pause" /\ c.isPaused)
                => /\ world = c.world
                   /\ isPaused = c.isPaused
                   /\ speed = c.speed
                   /\ c.emitted = <<>>)

\* a running simulation that has ticked was paused, and pause() was called again
C15_PausedTwice ==
    /\ Len(trail) = 2
    /\ trail[1].call = "pause" /\ ~trail[1].isPaused
    /\ trail[2].call = "pause"
    /\ world.currentTick >= 1

\* C16 as stated: pause() immediately followed by resume() leaves the world, the
\* tick counter and the running status as they were before the pair of calls
C16_PauseResumeChangesNothing ==
    (Len(trail) = 2 /\ trail[1].call = "pause" /\ trail[2].call = "resume")
        => /\ world = trail[1].world
           /\ isPaused = trail[1].isPaused

\* C16 amended: on a running simulation, pause() immediately followed by resume()
\* leaves the world, the tick counter and the running status as they were
C16_PauseResumeOfARunningSimulation ==
    (Len(trail) = 2 /\ trail[1].call = "pause" /\ trail[2].call = "resume"
       /\ ~trail[1].isPaused)
        => /\ world = trail[1].world
           /\ isPaused = trail[1].isPaused

\* a running simulation that has ticked was paused and resumed
C16_RunningPausedResumed ==
    /\ Len(trail) = 2
    /\ trail[1].call = "pause" /\ ~trail[1].isPaused
    /\ trail[2].call = "resume"
    /\ world.currentTick >= 1
    /\ ~isPaused

\* C17: the ids issued during a tick (to offspring and to corpses) have a numeric
\* part greater than that of every id of their prefix issued before, the ids of
\* the entities the store held before the tick among them
C17_IssuedIdsExceedTheIdsHeld ==
    Ticked =>
        \A new \in Range(Births) \cup Range(result[1].corpsesCreated) :
            \A old \in Range(StoredBefore.animals) \cup Range(StoredBefore.corpses) :
                old.id[1] = new.id[1] => new.id[2] > old.id[2]

\* C18: a corpse created in a tick with foodValue 0 and more than one tick of
\* decay time ahead is in the store after the tick, its timer one lower
C18_ZeroFoodCorpseIsStoredAndDecays ==
    Ticked =>
        \A c \in Range(result[1].corpsesCreated) :
            (c.foodValue = 0 /\ c.decayTimer > 1)
                => /\ MapHas(Stored.corpses, c.id)
                   /\ MapGet(Stored.corpses, c.id).sourceId = c.sourceId
                   /\ MapGet(Stored.corpses, c.id).decayTimer = c.decayTimer - 1

C20_OffspringHasItsParentsAttributes ==
    Len(spawned) = 3 =>
        With(MapGet(spawned, spawned[3].parentIds[1][1]), LAMBDA parent :
            /\ spawned[3].baseAttributes = parent.baseAttributes
            /\ spawned[3].behavioralAttributes = parent.behavioralAttributes
            /\ spawned[3].lifecycleAttributes = parent.lifecycleAttributes)

\* C21: every living animal of the store is inside the world: 0 <= x <= WORLD_WIDTH
\* and 0 <= y <= WORLD_HEIGHT
C21_LivingAnimalsAreInsideTheWorld ==
    \A a \in Range(Living) :
        /\ 0 <= a.state.position.x /\ a.state.position.x <= D(config.WORLD_WIDTH)
        /\ 0 <= a.state.position.y /\ a.state.position.y <= D(config.WORLD_HEIGHT)

\* an animal decided to move to a position beyond the far edge of the world and
\* stands on that edge after the tick
C21_MovedAgainstTheEdge ==
    /\ Ticked
    /\ \E d \in Range(Decisions) :
          /\ d.action.targetPosition # None
          /\ d.action.type \in {"FLEE", "DRIFT"}
          /\ d.action.targetPosition[1].x > D(config.WORLD_WIDTH)
          /\ \E a \in Range(Living) :
                a.id = d.id /\ a.state.position.x = D(config.WORLD_WIDTH)

\* the attributes of an animal lie within their declared bounds (the lifecycle
\* bounds are kept in halves)
WithinBounds(a) ==
    /\ \A k \in DOMAIN a.baseAttributes :
          /\ BASE_ATTRIBUTE_BOUNDS[k].min <= a.baseAttributes[k]
          /\ a.baseAttributes[k] <= BASE_ATTRIBUTE_BOUNDS[k].max
    /\ \A k \in DOMAIN a.behavioralAttributes :
          /\ BEHAVIORAL_ATTRIBUTE_BOUNDS[k].min <= a.behavioralAttributes[k]
          /\ a.behavioralAttributes[k] <= BEHAVIORAL_ATTRIBUTE_BOUNDS[k].max
    /\ \A k \in DOMAIN a.lifecycleAttributes :
          /\ LIFECYCLE_ATTRIBUTE_BOUNDS[k].min <= 2 * a.lifecycleAttributes[k]
          /\ 2 * a.lifecycleAttributes[k] <= LIFECYCLE_ATTRIBUTE_BOUNDS[k].max

\* C22: every attribute of every animal, of the first pair or bred from it over
\* the generations with inheritance and mutation, lies within its declared bounds
C22_AttributesWithinBounds ==
    \A a \in Range(spawned) : WithinBounds(a)

\* an animal of the second generation has an attribute at the maximum of its
\* bounds that neither of its parents had there
C22_MutatedUpToTheBound ==
    \E a \in Range(spawned) :
        /\ a.generation >= 2
        /\ \E k \in DOMAIN a.behavioralAttributes :
              /\ a.behavioralAttributes[k] = BEHAVIORAL_ATTRIBUTE_BOUNDS[k].max
              /\ MapGet(spawned, a.parentIds[1][1]).behavioralAttributes[k]
                    < BEHAVIORAL_ATTRIBUTE_BOUNDS[k].max
              /\ MapGet(spawned, a.parentIds[2][1]).behavioralAttributes[k]
                    < BEHAVIORAL_ATTRIBUTE_BOUNDS[k].max

\* C23: every animal, of the first pair or bred from it with mutation, has a
\* maturityAge strictly less than its maxAge
C23_MaturityBelowMaxAge ==
    \A a \in Range(spawned) :
        a.lifecycleAttributes.maturityAge < a.lifecycleAttributes.maxAge

\* an offspring whose maturityAge is one less than its maxAge, bred from parents
\* whose maturityAge was further below their maxAge
C23_MaturityPutBelowMaxAge ==
    \E a \in Range(spawned) :
        /\ a.generation >= 1
        /\ a.lifecycleAttributes.maturityAge = a.lifecycleAttributes.maxAge - 1
        /\ \A p \in Range(spawned) :
              Some(p.id) \in {a.parentIds[1], a.parentIds[2]} =>
                  p.lifecycleAttributes.maturityAge < p.lifecycleAttributes.maxAge - 1

\* C24: after a tick, every animal that had a turn in the tick's loop and is not in
\* the tick's deaths has the age and the ticksSinceLastReproduction it had when
\* its turn ended, each plus 1; an animal in the tick's deaths has the age and
\* the ticksSinceLastReproduction it had when its turn ended
C24_TheLivingAreAgedByOne ==
    \A i \in 1..Len(Journal) :
        With(MapGet(Stored.animals, Journal[i].id).state, LAMBDA s :
        With(IF Journal[i].id \in Range(Deaths) THEN 0 ELSE 1, LAMBDA aged :
            /\ s.age = Journal[i].state.age + aged
            /\ s.ticksSinceLastReproduction =
                   Journal[i].state.ticksSinceLastReproduction + aged))

\* a tick in which one animal died and another moved and lives on
C24_OneDiedAndOneMovedOn ==
    /\ Deaths # <<>>
    /\ \E i \in 1..Len(Journal) :
          /\ Journal[i].id \notin Range(Deaths)
          /\ Journal[i].effect = "more"
          /\ ~MapGet(Stored.animals, Journal[i].id).state.isDead

IdBefore(a, b) ==
    \/ a[1] = "deer" /\ b[1] = "wolf"
    \/ a[1] = b[1] /\ a[2] < b[2]

\* C27: the animals of a decision phase are processed in the order of alertRange
\* descending, and those of equal alertRange in ascending id order, whatever
\* the order they were added to the store in
C27_ProcessedByAlertRangeThenId ==
    Ticked =>
        \A i, j \in 1..Len(Decisions) :
            i < j =>
                With(MapGet(StoredBefore.animals, Decisions[i].id), LAMBDA a :
                With(MapGet(StoredBefore.animals, Decisions[j].id), LAMBDA b :
                    \/ a.derivedStats.alertRange > b.derivedStats.alertRange
                    \/ /\ a.derivedStats.alertRange = b.derivedStats.alertRange
                       /\ IdBefore(a.id, b.id)))

\* C28: for every configuration, validateConfig accepts it (valid, no errors)
\* and returns a clamped configuration, every field of it inside its declared
\* range, with a warning for every field of the input that was not inside its range
C28_AcceptedClampedAndWarned ==
    validated # None =>
        /\ validated[1].valid
        /\ validated[1].errors = {}
        /\ \A k \in DOMAIN CONFIG_RANGES :
              /\ validated[1].clampedConfig[k] >= CONFIG_RANGES[k].min
              /\ validated[1].clampedConfig[k] <= CONFIG_RANGES[k].max
              /\ (raw[1][k] < CONFIG_RANGES[k].min \/ raw[1][k] > CONFIG_RANGES[k].max
                    \/ raw[1][k] = NaN)
                     => k \in validated[1].warnings

C30_QueryReturnsTheEntitiesWithinTheRadius ==
    Ticked =>
        Range(result[1].found) =
            { e \in Range(pre[1].animalSpatialIndex.allEntities) :
                distanceSquared(result[1].center, e.position)
                    <= (result[1].radius + e.size) * (result[1].radius + e.size) }

\* C31: after a spread pass, every tile that the pass occupied is a neighbour of
\* a tile that was occupied when the pass began: no tile occupied during the pass
\* has spread in it
C31_SpreadFromTheTilesAtTheStart ==
    pre # None =>
        \A p \in Range(world.vegetationGrid.vegetation) :
            \/ VegHas(pre[1].vegetationGrid, p.x, p.y)
            \/ \E n \in Range(getNeighbors(pre[1].vegetationGrid, p.x, p.y)) :
                  VegHas(pre[1].vegetationGrid, n.x, n.y)

\* a pass that occupied a tile which has a neighbour left empty
C31_ANewTileBesideAnEmptyOne ==
    /\ pre # None
    /\ \E p \in Range(world.vegetationGrid.vegetation) :
          /\ ~VegHas(pre[1].vegetationGrid, p.x, p.y)
          /\ \E n \in Range(getNeighbors(world.vegetationGrid, p.x, p.y)) :
                ~VegHas(world.vegetationGrid, n.x, n.y)

\* C32: the 'tick' event of a tick carries the number of the steps taken on the
\* world and the counts of the world as it is after the tick, and every
\* animalDied event carries the animal as the world holds it after the tick
C32_EventsShowTheWorldAfterTheTick ==
    Ticked =>
        /\ result[1].tickEvent.tick = result[1].steps
        /\ result[1].tickEvent = emitTick(world)
        /\ \A e \in Range(result[1].animalDied) :
              e.animal = MapGet(Stored.animals, e.animal.id)

\* a second step in which an animal died and the counts changed
C32_CountsChangedInALaterStep ==
    /\ Ticked
    /\ result[1].steps >= 2
    /\ result[1].animalDied # <<>>
    /\ emitTick(world).deerCount + emitTick(world).wolfCount
         < emitTick(pre[1]).deerCount + emitTick(pre[1]).wolfCount

\* C33: an animal's decision is Reproduce only if the animal is mature, its
\* reproduction cooldown has expired and its hunger is above
\* (REPRODUCTION_COST * litterSize + REPRODUCTION_SAFETY_BUFFER) * MAX_HUNGER
C33_ReproduceOnlyWhenReadyAndAboveThreshold ==
    \A i \in 1..Len(Decisions) :
        Decisions[i].action.type = "REPRODUCE"
        => With(MapGet(StoredBefore.animals, Decisions[i].id), LAMBDA animal :
               /\ isMature(animal)
               /\ animal.state.ticksSinceLastReproduction >= config.REPRODUCTION_COOLDOWN
               /\ animal.state.hunger > requiredHunger(animal, config))

\* C34: the attack probability is aggression * (1 - hunger / MAX_HUNGER) for the
\* configured MAX_HUNGER, so an animal at full hunger (hunger = MAX_HUNGER) never
\* decides to attack
C34_NoAttackAtFullHunger ==
    \A i \in 1..Len(Decisions) :
        MapGet(StoredBefore.animals, Decisions[i].id).state.hunger = H(config.MAX_HUNGER)
        => Decisions[i].action.type # "ATTACK"

\* C35: once a living animal's age has reached its maxAge, an animalDied event for
\* its id fires within the next 2 steps and the animal does not keep living: of an
\* animal that a step found living at its maxAge, the step already emits the
\* animalDied event, and the animal is not among the living after it
C35_TheOldDieInTheNextStep ==
    Ticked =>
        \A i \in 1..Len(StoredBefore.animals) :
            With(StoredBefore.animals[i], LAMBDA animal :
                (/\ ~animal.state.isDead
                 /\ animal.state.age >= animal.lifecycleAttributes.maxAge)
                => /\ \E e \in 1..Len(result[1].animalDied) :
                          result[1].animalDied[e].animal.id = animal.id
                   /\ \A j \in 1..Len(Living) : Living[j].id # animal.id)

\* an old animal died in a step in which another animal lived on
C35_AnOldAnimalDiedBesideALivingOne ==
    /\ Ticked
    /\ Living # <<>>
    /\ \E i \in 1..Len(StoredBefore.animals) :
           With(StoredBefore.animals[i], LAMBDA animal :
               /\ ~animal.state.isDead
               /\ animal.state.age >= animal.lifecycleAttributes.maxAge
               /\ animal.state.hunger > 0
               /\ \E e \in 1..Len(result[1].animalDied) :
                      /\ result[1].animalDied[e].animal.id = animal.id
                      /\ result[1].animalDied[e].cause = "old age")

C38_AnAnimalDiesAtMostOnce ==
    Ticked =>
        /\ \A i, j \in 1..Len(Deaths) : Deaths[i] = Deaths[j] => i = j
        /\ \A i, j \in 1..Len(result[1].corpsesCreated) :
               result[1].corpsesCreated[i].sourceId = result[1].corpsesCreated[j].sourceId
               => i = j

\* two attackers chose the same target, which died
C38_TwoAttackersOfOneTarget ==
    /\ Ticked
    /\ \E i, j \in 1..Len(Decisions) :
           /\ i # j
           /\ Decisions[i].action.type = "ATTACK"
           /\ Decisions[j].action.type = "ATTACK"
           /\ Decisions[i].action.targetId = Decisions[j].action.targetId
           /\ \E d \in 1..Len(Deaths) : Some(Deaths[d]) = Decisions[i].action.targetId

\* C39: for every tick, the number of corpses in the store after the tick is the
\* number before the tick plus the number of corpses reported created minus the
\* number reported removed
C39_CorpsesAreAccountedFor ==
    Ticked =>
        Len(Stored.corpses) = Len(StoredBefore.corpses)
                                + Len(result[1].corpsesCreated)
                                - Len(result[1].corpsesRemoved)

\* C40: the seed the simulation reports (get seed()) is always the seed that the
\* current world was built from, also after reset(newSeed) replaced the world
C40_ReportedSeedIsTheSeedOfTheWorld ==
    actualSeed = world.rng.seed

====
